---- MODULE Spec2Model ----
(***************************************************************************)
(* Model of the RHOAI release-metadata processors:                         *)
(*   utils/processors/utils/util.py          (image resolution, helpers)   *)
(*   utils/processors/controller/quay_controller.py (registry queries)     *)
(*   utils/processors/operator-processor.py  (sync, keyed merge callers)   *)
(*   utils/processors/bundle-processor.py    (env-var merge)               *)
(*   utils/validators/catalog_validator.py   (catalog completeness)        *)
(*                                                                         *)
(* Strings on which the code computes (split, replace, startswith, sort)   *)
(* are sequences of tokens; a token is an indivisible piece of text such   *)
(* as "/", "@", ":", "-rhel9" or a digit.  Strings that the code only      *)
(* copies or tests for emptiness (urls, commits) are plain TLA+ strings.   *)
(***************************************************************************)
EXTENDS Integers, Sequences, FiniteSets, TLC

VARIABLES
    \* ---- fetch_latest_images_and_git_metadata (util.py) ----
    image_entries,        \* argument: the batch of image entries
    use_github_override,  \* argument
    latest_images,        \* local: resolved entries so far
    latest_refs,          \* the addresses of the dicts of latest_images; the
                          \* dict of image_entries[i] lives at address i
    git_labels_meta,      \* local: the 'map' of component -> git metadata
    missing_images,       \* local: repos with no tag
    missing_git_labels,   \* local: repos with an empty url or commit
    entry_idx,            \* position of the outer for loop (1-based)
    tags,                 \* local: the tag list of the entry being scanned
    tag_idx,              \* position of the inner for loop (1-based)
    sig_lookups,          \* the get_tag_details calls made for the current entry
    selected,             \* index in tags of the tag that was selected, or 0
    tag_queries,          \* the repos passed to get_all_tags, in call order
    label_query,          \* the digest passed to get_git_labels for the current entry
    image_manifest_digests, \* local: the sub-manifest digests of a manifest list
    labels_response,      \* the response of get_git_labels for the current entry
    fetch_pc,             \* "idle" | "loop" | "scan" | "returned" | "exit"
    fetch_report,         \* what was logged at LOGGER.error before sys.exit(1)
    \* ---- operator_processor (operator-processor.py) ----
    patch_related_images, \* self.patch_dict['patch']['relatedImages']
    operands_map_dict,    \* self.operands_map_dict
    nudging_yaml_dict,    \* self.nudging_yaml_dict
    self_latest_images,   \* self.latest_images
    op_pc,                \* "idle" | "start" | "synced" | "fetched" | "updated"
    \* ---- bundle_processor.prepare_env_and_related_images ----
    existing_env_vars,    \* the deployment's env list of the CSV
    new_env_vars,         \* operand image entries + additional images
    final_env_vars,       \* the merged env list
    env_pc,               \* "idle" | "start" | "merged"
    \* ---- catalog_validator.rhods_operator.__ge__ ----
    cmp_self,             \* self.version
    cmp_other,            \* other.version
    cmp_result,           \* the value returned by self >= other
    cmp_pc,               \* "idle" | "start" | "done"
    \* ---- catalog_validator (catalog_validator.py) ----
    operation,            \* "validate-catalogs" | "validate-pcc"
    build_config_versions,\* build_config['config']['supported-ocp-versions']
    shipped_lines,        \* the lines of shipped_rhoai_versions.txt
    supported_ocp_versions, \* self.supported_ocp_versions
    shipped_rhoai_versions, \* self.shipped_rhoai_versions
    catalogs,             \* the 'olm.bundle' names read so far, one set per platform
    missing_bundles,      \* local: one [key, bundles] per platform evaluated
    incorrect_3x_bundles, \* local of validate_catalogs, same shape
    ocp_idx,              \* position of the for loop over the platforms (1-based)
    cat_pc,               \* "idle" | "new" | "loop" | "returned" | "exit"
    \* ---- apply_registry_and_repo_replacements (util.py) ----
    remap_image_entries,  \* argument image_entries, modified in place
    registry_mapping,     \* argument: a dict, as its (key, value) pairs in order
    repo_mappings,        \* argument: a dict, as its (key, value) pairs in order
    remap_idx,            \* position of the for loop over image_entries (1-based)
    remap_pc,             \* "idle" | "start" | "loop" | "returned" | "error"
    \* ---- process_push_pipeline (util.py) ----
    push_cel_expr,        \* the on-cel-expression annotation of push_pipeline_dict
    push_operation,       \* argument operation
    is_updated,           \* the first element of the returned tuple
    push_calls,           \* number of calls made with push_operation
    \* ---- parse_image_value (util.py) ----
    parse_value,          \* argument image_value
    parse_result,         \* the returned dict
    parse_pc,             \* "idle" | "start" | "returned" | "error"
    \* ---- OperatorProcessor.process / BundleProcessor.process ----
    proc_kind,            \* "none" | "operator" | "bundle"
    proc_input,           \* what the run finds: see RunInputs
    proc_step,            \* position in the steps of process() (1-based)
    is_push_pipeline_updated, \* self.is_push_pipeline_updated
    files_written,        \* the files written so far, in order
    proc_status,          \* "idle" | "running" | "failed" | "done"
    proc_error,           \* the reason of the exit, "" when none
    \* ---- jsonupdate_ng.updateJson applied twice (operator-processor.py) ----
    merge_target,         \* argument: the target document
    merge_source,         \* argument: the source document
    merge_first,          \* updateJson(target, source)
    merge_second,         \* updateJson(merge_first, source)
    remerge_pc,           \* "idle" | "start" | "merged" | "remerged"
    \* ---- sync_yamls_from_bundle_patch with object identities ----
    heap,                 \* the dicts alive, by address (1-based)
    heap_patch,           \* self.patch_dict['patch']['relatedImages']: addresses
    heap_filtered,        \* local filtered_images: addresses
    heap_operands,        \* self.operands_map_dict['relatedImages']: addresses
    heap_nudging,         \* self.nudging_yaml_dict['relatedImages']: addresses
    merges_in_place,      \* whether updateJson writes into its target
    alias_pc,             \* "idle" | "start" | "synced"
    \* ---- BundleProcessor.generate_bundle_build_args ----
    operator_git_metadata_map, \* self.operator_git_metadata['map']: items in order
    manifest_config_map,  \* self.manifest_config_dict['map']: items in order
    additional_meta,      \* self.manifest_config_dict['additional_meta']: items
    bundle_build_args,    \* the returned text
    args_pc,              \* "idle" | "start" | "generated"
    \* ---- BundleProcessor.fetch_operator_metadata ----
    bundle_patch_images,  \* self.patch_dict['patch']['relatedImages']
    self_build_type,      \* self.build_type
    self_rhoai_version,   \* self.rhoai_version
    operator_queries,     \* the calls of fetch_latest_images_and_git_metadata made
    opmeta_pc,            \* "idle" | "start" | "fetching" | "exit"
    \* ---- OperatorProcessor.update_manifest_config ----
    manifest_before,      \* manifest_config_dict['map'] at the call: items in order
    manifest_map,         \* self.manifest_config_dict['map']: items in order
    git_labels_map,       \* self.git_labels_meta['map']: items in order
    mc_missing_components, \* local missing_components
    mc_missing_git_labels, \* local missing_git_labels
    mc_additional_meta,   \* self.manifest_config_dict['additional_meta']: items
    mc_idx,               \* position of the loop over the map (1-based)
    mc_pc,                \* "idle" | "loop" | "returned" | "exit"
    \* ---- deduplicate_and_sort (util.py) ----
    dedup_entries,        \* argument entries
    dedup_sort,           \* argument sort
    dedup_result,         \* the returned list
    dedup_pc,             \* "idle" | "start" | "returned"
    \* ---- filter_image_entries (util.py) ----
    filter_entries,       \* argument image_entries
    filter_patterns,      \* the pattern list P
    included,             \* outcome of the call with include_filter = P
    excluded,             \* outcome of the call with exclude_filter = P
    rejected,             \* outcome of the call with both filters
    filter_pc             \* "idle" | "start" | "included" | "excluded" | "rejected"

fetch_vars == <<image_entries, use_github_override, latest_images, latest_refs,
                git_labels_meta,
                missing_images, missing_git_labels, entry_idx, tags, tag_idx,
                sig_lookups, selected, tag_queries, label_query,
                image_manifest_digests, labels_response, fetch_pc, fetch_report>>

op_vars == <<patch_related_images, operands_map_dict, nudging_yaml_dict,
             self_latest_images, op_pc>>

env_vars == <<existing_env_vars, new_env_vars, final_env_vars, env_pc>>

cmp_vars == <<cmp_self, cmp_other, cmp_result, cmp_pc>>

cat_vars == <<operation, build_config_versions, shipped_lines, supported_ocp_versions,
              shipped_rhoai_versions, catalogs, missing_bundles, incorrect_3x_bundles,
              ocp_idx, cat_pc>>

remap_vars == <<remap_image_entries, registry_mapping, repo_mappings, remap_idx,
                remap_pc>>

push_vars == <<push_cel_expr, push_operation, is_updated, push_calls>>

parse_vars == <<parse_value, parse_result, parse_pc>>

proc_vars == <<proc_kind, proc_input, proc_step, is_push_pipeline_updated,
               files_written, proc_status, proc_error>>

remerge_vars == <<merge_target, merge_source, merge_first, merge_second,
                  remerge_pc>>

alias_vars == <<heap, heap_patch, heap_filtered, heap_operands, heap_nudging,
                merges_in_place, alias_pc>>

args_vars == <<operator_git_metadata_map, manifest_config_map, additional_meta,
               bundle_build_args, args_pc>>

opmeta_vars == <<bundle_patch_images, self_build_type, self_rhoai_version,
                 operator_queries,
                 opmeta_pc>>

manifest_vars == <<manifest_before, manifest_map, git_labels_map,
                   mc_missing_components, mc_missing_git_labels, mc_additional_meta,
                   mc_idx, mc_pc>>

dedup_vars == <<dedup_entries, dedup_sort, dedup_result, dedup_pc>>

filter_vars == <<filter_entries, filter_patterns, included, excluded, rejected,
                 filter_pc>>

vars == <<fetch_vars, op_vars, env_vars, cmp_vars, cat_vars,
         remap_vars, push_vars, parse_vars, proc_vars,
         remerge_vars, alias_vars, args_vars, opmeta_vars,
         manifest_vars, dedup_vars, filter_vars>>

-----------------------------------------------------------------------------
(* Bounds of the model *)

MaxEntries == 2
MaxTags == 2
MaxPatch == 3
MaxNudging == 2
MaxEnv == 2
MaxDigits == 2
MaxShipped == 2
MaxPlatforms == 2
MaxRemap == 2
MaxCel == 3
MaxCalls == 2
MaxRepoTokens == 3
MaxOperatorEntries == 2
MaxMergeList == 2
MaxHeapList == 2
MaxMetaItems == 2
MaxBundlePatch == 3
MaxManifestItems == 2
MaxDedup == 3
MaxFilter == 3

-----------------------------------------------------------------------------
(* Token strings *)

Range(s) == {s[i] : i \in 1..Len(s)}

FirstIndex(s, t) ==
    IF t \in Range(s)
    THEN CHOOSE i \in 1..Len(s) : s[i] = t /\ \A j \in 1..(i - 1) : s[j] # t
    ELSE 0

\* str.split(sep): the pieces between the occurrences of sep, at least one piece
RECURSIVE SplitOn(_, _)
SplitOn(s, sep) ==
    LET i == FirstIndex(s, sep)
    IN  IF i = 0 THEN <<s>>
        ELSE <<SubSeq(s, 1, i - 1)>> \o SplitOn(SubSeq(s, i + 1, Len(s)), sep)

\* sep.join(parts)
RECURSIVE JoinWith(_, _)
JoinWith(parts, sep) ==
    IF Len(parts) = 0 THEN <<>>
    ELSE IF Len(parts) = 1 THEN parts[1]
    ELSE parts[1] \o <<sep>> \o JoinWith(Tail(parts), sep)

\* str.replace(old, new) for a one-token old and a token-sequence new
RECURSIVE ReplaceTok(_, _, _)
ReplaceTok(s, old, new) ==
    IF Len(s) = 0 THEN <<>>
    ELSE (IF Head(s) = old THEN new ELSE <<Head(s)>>) \o ReplaceTok(Tail(s), old, new)

EndsWithTok(s, t) == Len(s) > 0 /\ s[Len(s)] = t

-----------------------------------------------------------------------------
(* util.py: parse_image_value *)

parse_image_value(image_value) ==
    LET at     == FirstIndex(image_value, "@")
        base   == IF at = 0 THEN image_value ELSE SubSeq(image_value, 1, at - 1)
        digest == IF at = 0 THEN <<"None">>
                  ELSE SubSeq(image_value, at + 1, Len(image_value))
        parts  == SplitOn(base, "/")
        repo   == JoinWith(SubSeq(parts, 3, Len(parts)), "/")
        component_name ==
            IF EndsWithTok(repo, "-rhel8") \/ EndsWithTok(repo, "-rhel9")
            THEN ReplaceTok(ReplaceTok(repo, "-rhel8", <<>>), "-rhel9", <<>>)
            ELSE repo
    IN  IF Len(parts) < 2
        THEN [ok |-> FALSE, registry |-> <<>>, org |-> <<>>, repo |-> <<>>,
              component_name |-> <<>>, digest |-> <<>>]      \* parts[1]: IndexError
        ELSE [ok |-> TRUE, registry |-> parts[1], org |-> parts[2], repo |-> repo,
              component_name |-> component_name, digest |-> digest]

-----------------------------------------------------------------------------
(* constants/constants.py *)

GIT_URL_LABEL_KEY == "git.url"
GIT_COMMIT_LABEL_KEY == "git.commit"
GITHUB_URL_LABEL_KEY == "github.url"
GITHUB_COMMIT_LABEL_KEY == "github.commit"

-----------------------------------------------------------------------------
(* Inputs of the resolver: the batch and what the registry may answer *)

SeqsUpTo(S, n) == UNION {[1..k -> S] : k \in 0..n}

Str(a, b, c) == <<a, b, c>>

EntryPool ==
    { [name  |-> <<"RELATED_IMAGE_", "FOO", "_IMAGE">>,
       value |-> <<"quay.io", "/", "org", "/", "foo", "-rhel9", "@">>],
      [name  |-> <<"RELATED_IMAGE_", "BAR", "_IMAGE">>,
       value |-> <<"quay.io", "/", "org", "/", "bar", "@", "sha256", ":", "old">>] }

TagPool ==
    { [manifest_digest |-> Str("sha256", ":", "d1"), is_manifest_list |-> FALSE],
      [manifest_digest |-> Str("sha256", ":", "d2"), is_manifest_list |-> TRUE] }

\* response.json() of the tag listing: without a 'tags' key, or with the list
AllTagsResponses ==
    {[has_tags |-> FALSE, tags |-> <<>>]}
        \cup {[has_tags |-> TRUE, tags |-> t] : t \in SeqsUpTo(TagPool, MaxTags)}

\* response.json()['tags'] of the specificTag lookup of a signature tag
TagDetailResponses(sig_tag) == {<<>>, <<[name |-> sig_tag]>>}

\* response.json() of the manifest lookup
ManifestResponses ==
    { [has_manifest_data |-> FALSE, is_manifest_list |-> FALSE, manifests |-> <<>>],
      [has_manifest_data |-> TRUE, is_manifest_list |-> FALSE, manifests |-> <<>>],
      [has_manifest_data |-> TRUE, is_manifest_list |-> TRUE, manifests |-> <<>>],
      [has_manifest_data |-> TRUE, is_manifest_list |-> TRUE,
       manifests |-> <<Str("sha256", ":", "a1"), Str("sha256", ":", "a2")>>] }

Label(k, v) == [key |-> k, value |-> v]

\* response.json() of the label lookup
LabelResponses ==
    { [has_labels |-> FALSE, labels |-> <<>>],
      [has_labels |-> TRUE, labels |-> <<>>],
      [has_labels |-> TRUE,
       labels |-> <<Label("git.url", "https://x/y"), Label("git.commit", "abc")>>],
      [has_labels |-> TRUE,
       labels |-> <<Label("git.url", "https://x/y"), Label("git.commit", "")>>],
      [has_labels |-> TRUE,
       labels |-> <<Label("git.url", "https://x/y"), Label("git.commit", "abc"),
                    Label("github.url", "https://up/y"), Label("github.commit", "")>>],
      [has_labels |-> TRUE,
       labels |-> <<Label("github.url", "https://up/y"),
                    Label("github.commit", "def")>>] }

-----------------------------------------------------------------------------
(* controller/quay_controller.py *)

EmptyDict == [k \in {} |-> ""]

\* get_tag_details: the first tag of the response, or {}
get_tag_details(resp_tags) == IF Len(resp_tags) > 0 THEN resp_tags[1] ELSE EmptyDict

\* truth value of a dict
Truthy(d) == DOMAIN d # {}

\* get_image_manifest_digests_for_all_the_supported_archs, after get_manifest_details
get_image_manifest_digests(manifest_json) ==
    IF manifest_json.is_manifest_list THEN manifest_json.manifests ELSE <<>>

-----------------------------------------------------------------------------
(* util.py: fetch_latest_images_and_git_metadata *)

\* {label['key']: label['value'] for label in labels if label['value']}
LabelsDict(labels) ==
    LET kept == {i \in 1..Len(labels) : labels[i].value # ""}
        keys == {labels[i].key : i \in kept}
        last(k) == CHOOSE i \in kept :
                      labels[i].key = k /\ \A j \in kept : labels[j].key = k => j <= i
    IN  [k \in keys |-> labels[last(k)].value]

\* labels.get(key, '')
DictGet(d, k) == IF k \in DOMAIN d THEN d[k] ELSE ""

\* a mutation of sig_tag_of: the ':' of the digest is kept
sig_tag_of_colon(manifest_digest) == manifest_digest \o <<".sig">>

\* line 231: f'{tag["manifest_digest"].replace(":", "-")}.sig'
sig_tag_of(manifest_digest) == ReplaceTok(manifest_digest, ":", <<"-">>) \o <<".sig">>

\* a mutation of git_url_of: github.url is used whenever it is present
git_url_of_always_github(labels, override) ==
    IF GITHUB_URL_LABEL_KEY \in DOMAIN labels
    THEN labels[GITHUB_URL_LABEL_KEY] ELSE DictGet(labels, GIT_URL_LABEL_KEY)

\* lines 258-268: url and commit from the labels, with the github override
git_url_of(labels, override) ==
    IF override /\ GITHUB_URL_LABEL_KEY \in DOMAIN labels
    THEN labels[GITHUB_URL_LABEL_KEY] ELSE DictGet(labels, GIT_URL_LABEL_KEY)

git_commit_of(labels, override) ==
    IF override /\ GITHUB_COMMIT_LABEL_KEY \in DOMAIN labels
    THEN labels[GITHUB_COMMIT_LABEL_KEY] ELSE DictGet(labels, GIT_COMMIT_LABEL_KEY)

\* git_labels_meta['map'][component_name] = {...}
MapPut(m, k, v) == [x \in DOMAIN m \cup {k} |-> IF x = k THEN v ELSE m[x]]

NoReport == [kind |-> "none", names |-> <<>>]

NoLabelsResponse == [has_labels |-> FALSE, labels |-> <<>>]

FetchInit ==
    /\ image_entries \in SeqsUpTo(EntryPool, MaxEntries)
    /\ use_github_override \in BOOLEAN
    /\ latest_images = <<>>
    /\ latest_refs = <<>>
    /\ git_labels_meta = EmptyDict
    /\ missing_images = <<>>
    /\ missing_git_labels = <<>>
    /\ entry_idx = 1
    /\ tags = <<>>
    /\ tag_idx = 0
    /\ sig_lookups = <<>>
    /\ selected = 0
    /\ tag_queries = <<>>
    /\ label_query = <<>>
    /\ image_manifest_digests = <<>>
    /\ labels_response = NoLabelsResponse
    /\ fetch_pc = "loop"
    /\ fetch_report = NoReport

\* sys.exit(1) inside the controller, or an uncaught exception
FetchAbort(kind) ==
    /\ fetch_pc' = "exit"
    /\ fetch_report' = [kind |-> kind, names |-> <<>>]

\* a mutation of outer_loop_done: the exit checks run as soon as an image is missing
outer_loop_done_failfast(idx, n) == idx > n \/ Len(missing_images) > 0

\* line 203: 'for image_entry in image_entries' is exhausted
outer_loop_done(idx, n) == idx > n

\* lines 203-228: the head of one iteration of the outer loop
fetch_get_all_tags ==
    /\ fetch_pc = "loop"
    /\ ~outer_loop_done(entry_idx, Len(image_entries))
    /\ LET image_entry == image_entries[entry_idx]
           parsed      == parse_image_value(image_entry.value)
       IN  /\ sig_lookups' = <<>>
           /\ selected' = 0
           /\ label_query' = <<>>
           /\ image_manifest_digests' = <<>>
           /\ labels_response' = NoLabelsResponse
           /\ tag_idx' = 1
           /\ UNCHANGED <<image_entries, use_github_override, latest_images, latest_refs,
                          git_labels_meta, missing_git_labels>>
           /\ IF ~parsed.ok
              THEN /\ FetchAbort("exception")
                   /\ UNCHANGED <<missing_images, entry_idx, tags, tag_queries>>
              ELSE \E resp \in AllTagsResponses :
                   /\ tag_queries' = Append(tag_queries, parsed.repo)
                   /\ IF ~resp.has_tags
                      THEN /\ FetchAbort("registry_error")
                           /\ UNCHANGED <<missing_images, entry_idx, tags>>
                      ELSE /\ tags' = resp.tags
                           /\ IF Len(resp.tags) = 0
                              THEN /\ missing_images' = Append(missing_images, parsed.repo)
                                   /\ entry_idx' = entry_idx + 1
                                   /\ UNCHANGED <<fetch_pc, fetch_report>>
                              ELSE /\ fetch_pc' = "scan"
                                   /\ UNCHANGED <<missing_images, entry_idx, fetch_report>>

\* git_labels_meta['map'][component_name], lines 271-273
GitMeta(git_url, git_commit) ==
    [k \in {GIT_URL_LABEL_KEY, GIT_COMMIT_LABEL_KEY} |->
        IF k = GIT_URL_LABEL_KEY THEN git_url ELSE git_commit]

\* a mutation of resolved_value: the component name in the place of the repo
resolved_value_of_component(parsed, manifest_digest) ==
    parsed.registry \o <<"/">> \o parsed.org \o <<"/">> \o parsed.component_name
        \o <<"@">> \o manifest_digest

\* line 235: f'{registry}/{org}/{repo}@{tag["manifest_digest"]}'
resolved_value(parsed, manifest_digest) ==
    parsed.registry \o <<"/">> \o parsed.org \o <<"/">> \o parsed.repo
        \o <<"@">> \o manifest_digest

\* a mutation of labels_digest: the labels are read from the selected digest
labels_digest_of_list(tag, subs) == tag.manifest_digest

\* lines 246-250: the digest whose labels are read
labels_digest(tag, subs) ==
    IF tag.is_manifest_list /\ Len(subs) > 0 THEN subs[1] ELSE tag.manifest_digest

\* a mutation of updated_entry_ref: updated_entry = image_entry, the same dict
updated_entry_ref_shared(idx, n_entries, n_latest) == idx

\* line 237: dict(image_entry) is a new dict, at an address no input dict and
\* no earlier copy has
updated_entry_ref(idx, n_entries, n_latest) == n_entries + n_latest + 1

\* line 238: updated_entry['value'] = value stores into the dict at ref, which
\* is a dict of image_entries only when ref is one of their addresses
StoreValue(entries, ref, value) ==
    IF ref <= Len(entries)
    THEN SubSeq(entries, 1, ref - 1) \o <<[entries[ref] EXCEPT !.value = value]>>
            \o SubSeq(entries, ref + 1, Len(entries))
    ELSE entries

\* lines 235-280: the body of 'if signature:', up to the break
fetch_resolve(image_entry, parsed, tag) ==
    LET value == resolved_value(parsed, tag.manifest_digest)
        ref   == updated_entry_ref(entry_idx, Len(image_entries), Len(latest_images))
        updated_entry == [image_entry EXCEPT !.value = value]
    IN  /\ image_entries' = StoreValue(image_entries, ref, value)
        /\ latest_images' = Append(latest_images, updated_entry)
        /\ latest_refs' = Append(latest_refs, ref)
        /\ selected' = tag_idx
        /\ UNCHANGED tag_idx
        /\ \E mresp \in (IF tag.is_manifest_list THEN ManifestResponses
                         ELSE {[has_manifest_data |-> TRUE, is_manifest_list |-> FALSE,
                                manifests |-> <<>>]}) :
           IF ~mresp.has_manifest_data
           THEN /\ FetchAbort("registry_error")
                /\ UNCHANGED <<git_labels_meta, missing_git_labels, entry_idx, label_query,
                               image_manifest_digests, labels_response>>
           ELSE LET subs == get_image_manifest_digests(mresp)
                    manifest_digest == labels_digest(tag, subs)
                IN  /\ image_manifest_digests' = subs
                    /\ label_query' = manifest_digest
                    /\ \E lresp \in LabelResponses :
                       /\ labels_response' = lresp
                       /\ IF ~lresp.has_labels
                          THEN /\ FetchAbort("registry_error")
                               /\ UNCHANGED <<git_labels_meta, missing_git_labels, entry_idx>>
                          ELSE LET labels     == LabelsDict(lresp.labels)
                                   git_url    == git_url_of(labels, use_github_override)
                                   git_commit == git_commit_of(labels, use_github_override)
                               IN  /\ git_labels_meta' =
                                          MapPut(git_labels_meta, parsed.component_name,
                                                 GitMeta(git_url, git_commit))
                                   /\ missing_git_labels' =
                                          IF git_url = "" \/ git_commit = ""
                                          THEN Append(missing_git_labels, parsed.repo)
                                          ELSE missing_git_labels
                                   /\ entry_idx' = entry_idx + 1
                                   /\ fetch_pc' = "loop"
                                   /\ UNCHANGED fetch_report

\* line 280 'break' against the end of 'for tag in tags': does the scan go on
\* after a lookup that found no signature
scan_continues(idx, n) == idx < n

\* lines 230-280: one iteration of the inner loop
fetch_scan_tag ==
    /\ fetch_pc = "scan"
    /\ tag_idx <= Len(tags)
    /\ LET image_entry == image_entries[entry_idx]
           parsed      == parse_image_value(image_entry.value)
           tag         == tags[tag_idx]
           sig_tag     == sig_tag_of(tag.manifest_digest)
       IN  \E sresp \in TagDetailResponses(sig_tag) :
           LET signature == get_tag_details(sresp)
           IN  /\ sig_lookups' = Append(sig_lookups,
                                        [tag |-> sig_tag, found |-> Truthy(signature)])
               /\ UNCHANGED <<use_github_override, missing_images, tags, tag_queries>>
               /\ IF Truthy(signature)
                  THEN fetch_resolve(image_entry, parsed, tag)
                  ELSE /\ UNCHANGED <<image_entries, latest_images, latest_refs,
                                      git_labels_meta, missing_git_labels,
                                      selected, label_query, image_manifest_digests,
                                      labels_response, fetch_report>>
                       /\ IF scan_continues(tag_idx, Len(tags))
                          THEN /\ tag_idx' = tag_idx + 1
                               /\ UNCHANGED <<entry_idx, fetch_pc>>
                          ELSE /\ entry_idx' = entry_idx + 1
                               /\ fetch_pc' = "loop"
                               /\ UNCHANGED tag_idx

\* lines 282-292: which list is reported before sys.exit(1), if any
exit_report(m_images, m_labels) ==
    IF Len(m_images) > 0 THEN [kind |-> "missing_images", names |-> m_images]
    ELSE IF Len(m_labels) > 0 THEN [kind |-> "missing_git_labels", names |-> m_labels]
    ELSE NoReport

\* lines 282-298: after the outer loop
fetch_finish ==
    /\ fetch_pc = "loop"
    /\ outer_loop_done(entry_idx, Len(image_entries))
    /\ fetch_report' = exit_report(missing_images, missing_git_labels)
    /\ fetch_pc' = IF fetch_report'.kind = "none" THEN "returned" ELSE "exit"
    /\ UNCHANGED <<image_entries, use_github_override, latest_images, latest_refs, git_labels_meta,
                   missing_images, missing_git_labels, entry_idx, tags, tag_idx,
                   sig_lookups, selected, tag_queries, label_query,
                   image_manifest_digests, labels_response>>

FetchNext == fetch_get_all_tags \/ fetch_scan_tag \/ fetch_finish

-----------------------------------------------------------------------------
(* Order of strings: Python compares str values character by character *)

\* the tokens used in sorted strings, in the order of their first characters
TokenOrder ==
    <<"\n", "-", ".", "0", "1", "2", "3", "4", "5", "6", "7", "8", "9",
      "A", "B", "BUNDLE", "FBC", "ODH_OPERATOR", "RELATED_IMAGE_", "STALE", "_IMAGE",
      "rc", "v", "v4.">>

TokRank(t) == CHOOSE i \in 1..Len(TokenOrder) : TokenOrder[i] = t

\* a < b for str
RECURSIVE StrLess(_, _)
StrLess(a, b) ==
    IF Len(b) = 0 THEN FALSE
    ELSE IF Len(a) = 0 THEN TRUE
    ELSE IF Head(a) = Head(b) THEN StrLess(Tail(a), Tail(b))
    ELSE TokRank(Head(a)) < TokRank(Head(b))

\* int(s) for a str of decimal digits
RECURSIVE int_of(_)
int_of(s) ==
    IF Len(s) = 0 THEN 0
    ELSE 10 * int_of(SubSeq(s, 1, Len(s) - 1)) + (TokRank(s[Len(s)]) - TokRank("0"))

\* sorted(S) for a set of str
RECURSIVE SortedStrings(_)
SortedStrings(S) ==
    IF S = {} THEN <<>>
    ELSE LET m == CHOOSE x \in S : \A y \in S : y = x \/ StrLess(x, y)
         IN  <<m>> \o SortedStrings(S \ {m})

\* pattern in s
IsSubstring(pattern, s) ==
    \E i \in 1..(Len(s) + 1) :
        /\ i + Len(pattern) - 1 <= Len(s)
        /\ SubSeq(s, i, i + Len(pattern) - 1) = pattern

SelectEntries(seq, Keep(_)) ==
    LET F[i \in 0..Len(seq)] ==
            IF i = 0 THEN <<>>
            ELSE IF Keep(seq[i]) THEN Append(F[i - 1], seq[i]) ELSE F[i - 1]
    IN  F[Len(seq)]

-----------------------------------------------------------------------------
(* util.py: deduplicate_and_sort, filter_image_entries *)

\* a mutation of FirstWithKey: a later entry replaces the one seen before
LastWithKey(entries, k) ==
    entries[CHOOSE i \in 1..Len(entries) :
                entries[i].name = k /\ \A j \in (i + 1)..Len(entries) : entries[j].name # k]

\* lines 61-69: the first entry with each key
FirstWithKey(entries, k) ==
    entries[CHOOSE i \in 1..Len(entries) :
                entries[i].name = k /\ \A j \in 1..(i - 1) : entries[j].name # k]

\* line 77: [seen[k] for k in sorted(seen.keys())]
RECURSIVE EntriesInOrder(_, _)
EntriesInOrder(entries, order) ==
    IF Len(order) = 0 THEN <<>>
    ELSE <<FirstWithKey(entries, Head(order))>> \o EntriesInOrder(entries, Tail(order))

\* line 79: list(seen.values()), the first occurrences in insertion order
RECURSIVE FirstOccurrences(_, _)
FirstOccurrences(entries, seen) ==
    IF Len(entries) = 0 THEN <<>>
    ELSE (IF Head(entries).name \in seen THEN <<>> ELSE <<Head(entries)>>)
            \o FirstOccurrences(Tail(entries), seen \cup {Head(entries).name})

deduplicate_and_sort(entries, sort) ==
    LET keys == {entries[i].name : i \in 1..Len(entries)}
    IN  IF sort
        THEN EntriesInOrder(entries, SortedStrings(keys))
        ELSE FirstOccurrences(entries, {})

MatchesAny(name, patterns) ==
    \E i \in 1..Len(patterns) : IsSubstring(patterns[i], name)

\* a mutation of filter_image_entries: the exclude branch tests the first
\* pattern only
filter_image_entries_first_pattern(image_entries_arg, include_filter, exclude_filter) ==
    IF Len(include_filter) > 0
    THEN SelectEntries(image_entries_arg, LAMBDA e : MatchesAny(e.name, include_filter))
    ELSE IF Len(exclude_filter) > 0
    THEN SelectEntries(image_entries_arg,
                       LAMBDA e : ~IsSubstring(exclude_filter[1], e.name))
    ELSE image_entries_arg

filter_image_entries(image_entries_arg, include_filter, exclude_filter) ==
    IF Len(include_filter) > 0
    THEN SelectEntries(image_entries_arg, LAMBDA e : MatchesAny(e.name, include_filter))
    ELSE IF Len(exclude_filter) > 0
    THEN SelectEntries(image_entries_arg, LAMBDA e : ~MatchesAny(e.name, exclude_filter))
    ELSE image_entries_arg

-----------------------------------------------------------------------------
(* Documents: the trees that jsonupdate_ng.updateJson merges.                *)
(* A document is a scalar, an object (keys to documents) or a list.         *)

S(x) == [k |-> "s", v |-> x]
O(f) == [k |-> "o", v |-> f]
L(q) == [k |-> "l", v |-> q]

\* a dict of str values as a document, and back
DictDoc(d) == O([f \in DOMAIN d |-> S(d[f])])
DocDict(doc) == [f \in DOMAIN doc.v |-> doc.v[f].v]
RECURSIVE DictDocs(_)
DictDocs(seq) ==
    IF Len(seq) = 0 THEN <<>> ELSE <<DictDoc(Head(seq))>> \o DictDocs(Tail(seq))
RECURSIVE DocDicts(_)
DocDicts(docs) ==
    IF Len(docs) = 0 THEN <<>> ELSE <<DocDict(Head(docs))>> \o DocDicts(Tail(docs))
ListDoc(seq) == L(DictDocs(seq))
DocList(doc) == DocDicts(doc.v)

\* util.py to_plain_dict: json.loads(json.dumps(obj)) of a list of dicts
to_plain_dict(seq) == ListDoc(seq)

\* KeyedMerge (spec 4.5): jsonupdate_ng.updateJson(target, source, meta)
\* scheme maps a path (the keys from the root) to the key field of the list there
RECURSIVE updateJson(_, _, _, _)
RECURSIVE MergeKeyedList(_, _, _, _, _)

MatchIndex(list, keyField, elem) ==
    IF \E i \in 1..Len(list) : list[i].v[keyField] = elem.v[keyField]
    THEN CHOOSE i \in 1..Len(list) :
            /\ list[i].v[keyField] = elem.v[keyField]
            /\ \A j \in 1..(i - 1) : list[j].v[keyField] # elem.v[keyField]
    ELSE 0

MergeKeyedList(tl, sl, keyField, path, scheme) ==
    IF Len(sl) = 0 THEN tl
    ELSE LET e == Head(sl)
             i == MatchIndex(tl, keyField, e)
             merged == IF i = 0 THEN Append(tl, e)
                       ELSE SubSeq(tl, 1, i - 1)
                                \o <<updateJson(tl[i], e, path, scheme)>>
                                \o SubSeq(tl, i + 1, Len(tl))
         IN  MergeKeyedList(merged, Tail(sl), keyField, path, scheme)

updateJson(target, source, path, scheme) ==
    IF target.k = "o" /\ source.k = "o"
    THEN O([key \in DOMAIN target.v \cup DOMAIN source.v |->
              IF key \notin DOMAIN source.v THEN target.v[key]
              ELSE IF key \notin DOMAIN target.v THEN source.v[key]
              ELSE updateJson(target.v[key], source.v[key], Append(path, key), scheme)])
    ELSE IF target.k = "l" /\ source.k = "l" /\ path \in DOMAIN scheme
    THEN L(MergeKeyedList(target.v, source.v, scheme[path], path, scheme))
    ELSE source

NoScheme == [p \in {} |-> ""]
ListPatchScheme(path, keyField) == [p \in {path} |-> keyField]

-----------------------------------------------------------------------------
(* operator-processor.py: sync_yamls_from_bundle_patch, update_operands_map *)

Name(x) == <<"RELATED_IMAGE_", x, "_IMAGE">>
Entry(n, v) == [name |-> n, value |-> <<v>>]

\* line 186: exclude_filter=['FBC', 'BUNDLE', 'ODH_OPERATOR']
SYNC_EXCLUDE_FILTER == <<(<<"FBC">>), (<<"BUNDLE">>), (<<"ODH_OPERATOR">>)>>

\* meta={'listPatchScheme': {'$.relatedImages': {'key': 'name'}}}
related_images_meta == ListPatchScheme(<<"relatedImages">>, "name")

\* a mutation of keep_bundle_patch_components: the merged list is not restricted
keep_all_components(merged_list, names) == merged_list

\* lines 213-216: keep the components that exist in bundle-patch
keep_bundle_patch_components(merged_list, names) ==
    SelectEntries(merged_list, LAMBDA d : d.v["name"].v \in names)

\* relatedImages lists of the bundle patch (authoritative) and of the nudging yaml
PatchEntryPool ==
    { Entry(Name("A"), "new"), Entry(Name("A"), "other"), Entry(Name("B"), "new2"),
      Entry(Name("ODH_OPERATOR"), "op") }

NudgingEntryPool ==
    { Entry(Name("A"), "pinned"), Entry(Name("B"), "pinned2"),
      Entry(Name("STALE"), "x"), Entry(Name("ODH_OPERATOR"), "oldop") }

SetField(doc, key, val) ==
    O([f \in DOMAIN doc.v \cup {key} |-> IF f = key THEN val ELSE doc.v[f]])

OpIdle ==
    /\ patch_related_images = <<>>
    /\ operands_map_dict = O(EmptyDict)
    /\ nudging_yaml_dict = O(EmptyDict)
    /\ self_latest_images = <<>>
    /\ op_pc = "idle"

SyncInit ==
    /\ patch_related_images \in SeqsUpTo(PatchEntryPool, MaxPatch)
    /\ \E old \in SeqsUpTo(NudgingEntryPool, MaxNudging) :
          nudging_yaml_dict \in
              { O([f \in {"relatedImages", "apiVersion"} |->
                      IF f = "relatedImages" THEN ListDoc(old) ELSE S(<<"v1">>)]) }
                \cup (IF Len(old) = 0 THEN {O([f \in {"apiVersion"} |-> S(<<"v1">>)])}
                      ELSE {})
    /\ operands_map_dict =
          O([f \in {"relatedImages"} |-> ListDoc(<<Entry(Name("STALE"), "x")>>)])
    /\ self_latest_images = <<>>
    /\ op_pc = "start"

\* lines 165-218
sync_yamls_from_bundle_patch ==
    /\ op_pc = "start"
    /\ LET source_images       == patch_related_images
           deduplicated_images == deduplicate_and_sort(source_images, TRUE)
           filtered_images     == filter_image_entries(deduplicated_images, <<>>,
                                                       SYNC_EXCLUDE_FILTER)
           bundle_patch_component_names ==
               {filtered_images[i].name : i \in 1..Len(filtered_images)}
           merged_nudging ==
               updateJson(O([f \in {"relatedImages"} |-> to_plain_dict(filtered_images)]),
                          nudging_yaml_dict, <<>>, related_images_meta)
       IN  /\ operands_map_dict' =
                 SetField(operands_map_dict, "relatedImages", ListDoc(filtered_images))
           /\ nudging_yaml_dict' =
                 SetField(nudging_yaml_dict, "relatedImages",
                          L(keep_bundle_patch_components(
                                merged_nudging.v["relatedImages"].v,
                                bundle_patch_component_names)))
    /\ op_pc' = "synced"
    /\ UNCHANGED <<patch_related_images, self_latest_images>>

SyncNext == sync_yamls_from_bundle_patch

EnvIdle ==
    /\ existing_env_vars = <<>>
    /\ new_env_vars = <<>>
    /\ final_env_vars = <<>>
    /\ env_pc = "idle"

FetchIdle ==
    /\ image_entries = <<>>
    /\ use_github_override = FALSE
    /\ latest_images = <<>>
    /\ latest_refs = <<>>
    /\ git_labels_meta = EmptyDict
    /\ missing_images = <<>>
    /\ missing_git_labels = <<>>
    /\ entry_idx = 1
    /\ tags = <<>>
    /\ tag_idx = 0
    /\ sig_lookups = <<>>
    /\ selected = 0
    /\ tag_queries = <<>>
    /\ label_query = <<>>
    /\ image_manifest_digests = <<>>
    /\ labels_response = NoLabelsResponse
    /\ fetch_pc = "idle"
    /\ fetch_report = NoReport

-----------------------------------------------------------------------------
(* operator-processor.py update_operands_map;                               *)
(* bundle-processor.py prepare_env_and_related_images, lines 333-346        *)

\* a mutation of env_meta: updateJson called without a listPatchScheme
env_meta_missing == NoScheme

\* bundle-processor.py line 344: meta={'listPatchScheme': {'$.env': {'key': 'name'}}}
env_meta == ListPatchScheme(<<"env">>, "name")

\* the deployment's env list: image variables and other variables
ExistingEnvPool ==
    { DictDoc(Entry(Name("A"), "old")),
      DictDoc(Entry(Name("B"), "old2")),
      DictDoc([name |-> <<"OPERATOR_NAMESPACE">>, valueFrom |-> <<"fieldRef">>]),
      DictDoc([name |-> Name("A"), value |-> <<"old">>, optional |-> <<"keep">>]) }

NewEnvPool ==
    { Entry(Name("A"), "new"), Entry(Name("A"), "additional"),
      Entry(Name("B"), "new2"), Entry(Name("STALE"), "new3") }

DistinctKeys(docs) ==
    \A i, j \in 1..Len(docs) : i # j => docs[i].v["name"] # docs[j].v["name"]

\* operand entries are deduplicated by name (util.py line 77), additional images
\* by the dict comprehension of lines 325-331
DistinctNames(entries) ==
    \A i, j \in 1..Len(entries) : i # j => entries[i].name # entries[j].name

EnvInit ==
    /\ existing_env_vars \in {q \in SeqsUpTo(ExistingEnvPool, MaxEnv) : DistinctKeys(q)}
    /\ new_env_vars \in {q \in SeqsUpTo(NewEnvPool, MaxEnv) : DistinctNames(q)}
    /\ final_env_vars = <<>>
    /\ env_pc = "start"

\* lines 339-346: final_env_vars = updateJson({'env': existing}, {'env': new})['env']
merge_env_vars ==
    /\ env_pc = "start"
    /\ final_env_vars' =
          updateJson(O([f \in {"env"} |-> L(existing_env_vars)]),
                     O([f \in {"env"} |-> ListDoc(new_env_vars)]),
                     <<>>, env_meta).v["env"].v
    /\ env_pc' = "merged"
    /\ UNCHANGED <<existing_env_vars, new_env_vars>>

\* the operands map after the sync, and the images the resolver returned for it:
\* the resolver keeps the order and may have skipped entries
Resolved(e) == [e EXCEPT !.value = e.value \o <<"@", "sha256", ":", "d1">>]

OperandsLists ==
    { <<>>, <<Entry(Name("A"), "a")>>, <<Entry(Name("B"), "b")>>,
      <<Entry(Name("A"), "a"), Entry(Name("B"), "b")>> }

RECURSIVE ResolvedSublists(_)
ResolvedSublists(seq) ==
    IF Len(seq) = 0 THEN {<<>>}
    ELSE LET rest == ResolvedSublists(Tail(seq))
         IN  rest \cup {<<Resolved(Head(seq))>> \o r : r \in rest}

UpdateInit ==
    /\ patch_related_images = <<>>
    /\ nudging_yaml_dict = O(EmptyDict)
    /\ \E ops \in OperandsLists :
          /\ operands_map_dict =
                O([f \in {"relatedImages", "apiVersion"} |->
                      IF f = "relatedImages" THEN ListDoc(ops) ELSE S(<<"v1">>)])
          /\ self_latest_images \in ResolvedSublists(ops)
    /\ op_pc = "fetched"

\* operator-processor.py lines 64-69 and 102-111
update_operands_map ==
    /\ op_pc = "fetched"
    /\ Len(self_latest_images) > 0
    /\ operands_map_dict' =
          updateJson(operands_map_dict,
                     O([f \in {"relatedImages"} |-> ListDoc(self_latest_images)]),
                     <<>>, related_images_meta)
    /\ op_pc' = "updated"
    /\ UNCHANGED <<patch_related_images, nudging_yaml_dict, self_latest_images>>

MergeNext ==
    \/ merge_env_vars /\ UNCHANGED op_vars
    \/ update_operands_map /\ UNCHANGED env_vars

-----------------------------------------------------------------------------
(* catalog_validator.py: rhods_operator.__ge__ *)

OPERATOR_PREFIX == "rhods-operator."

\* line 59: f'rhods-operator.{rhoai_version}'
operator_name_of(rhoai_version) == <<OPERATOR_PREFIX>> \o rhoai_version

\* lines 17-18: version.replace('rhods-operator.', '').split('.')
semver(version) == SplitOn(ReplaceTok(version, OPERATOR_PREFIX, <<>>), ".")

\* a > b and a >= b for str
StrGreater(a, b) == StrLess(b, a)
StrGreaterEq(a, b) == ~StrLess(a, b)

\* line 19: the components are str and are compared as str
rhods_operator_ge(self, other) ==
    LET s == semver(self)
        o == semver(other)
    IN  IF StrGreater(s[1], o[1]) THEN TRUE
        ELSE IF s[1] = o[1]
             THEN (IF StrGreater(s[2], o[2]) THEN TRUE
                   ELSE IF s[2] = o[2] THEN StrGreaterEq(s[3], o[3])
                   ELSE FALSE)
             ELSE FALSE

\* decimal numbers of up to MaxDigits digits, without a leading zero
CmpDigits == {"0", "1", "6", "9"}
RECURSIVE DigitStrings(_)
DigitStrings(n) ==
    IF n = 0 THEN {<<>>}
    ELSE {<<d>> \o r : d \in CmpDigits, r \in DigitStrings(n - 1)}
Numbers ==
    UNION {{q \in DigitStrings(n) : n = 1 \/ q[1] # "0"} : n \in 1..MaxDigits}

CmpVersions ==
    {<<OPERATOR_PREFIX, major, ".">> \o minor \o <<".", patch>> :
        major \in {"2", "3"}, minor \in Numbers, patch \in {"0", "5"}}

CmpIdle ==
    /\ cmp_self = <<>>
    /\ cmp_other = <<>>
    /\ cmp_result = FALSE
    /\ cmp_pc = "idle"

CmpInit ==
    /\ cmp_self \in CmpVersions
    /\ cmp_other \in CmpVersions
    /\ cmp_result = FALSE
    /\ cmp_pc = "start"

\* rhods_operator(cmp_self) >= rhods_operator(cmp_other)
rhods_operator_compare ==
    /\ cmp_pc = "start"
    /\ cmp_result' = rhods_operator_ge(cmp_self, cmp_other)
    /\ cmp_pc' = "done"
    /\ UNCHANGED <<cmp_self, cmp_other>>

CmpNext == rhods_operator_compare

-----------------------------------------------------------------------------
(* catalog_validator.py: __init__, validate_catalogs, validate_pcc *)

Ver(major, minor, patch) == <<major, ".">> \o minor \o <<".", patch>>

\* line 9
MISSING_BUNDLE_EXCEPTIONS ==
    { operator_name_of(Ver("2", <<"9">>, "0")), operator_name_of(Ver("2", <<"9">>, "1")) }

\* line 10
MIN_OCP_VERSION_FOR_RHOAI_30 == 419

\* line 92: the cutoff of a platform without 'discontinued-from'
DEFAULT_DISCONTINUED_FROM == operator_name_of(Ver("9", <<"9", "9">>, <<"9", "9">>))

\* str.startswith(prefix)
StartsWith(s, prefix) ==
    Len(s) >= Len(prefix) /\ SubSeq(s, 1, Len(prefix)) = prefix

\* str.count(t) for a one-token t
CountTok(s, t) == Cardinality({i \in 1..Len(s) : s[i] = t})

\* str.strip('\n')
RECURSIVE StripNewlines(_)
StripNewlines(s) ==
    IF Len(s) = 0 THEN s
    ELSE IF Head(s) = "\n" THEN StripNewlines(Tail(s))
    ELSE IF s[Len(s)] = "\n" THEN StripNewlines(SubSeq(s, 1, Len(s) - 1))
    ELSE s

\* lines 34-36: version.split('-')[0].strip('\n').replace('v', '')
shipped_version_of(line) ==
    ReplaceTok(StripNewlines(SplitOn(line, "-")[1]), "v", <<>>)

\* lines 34-36: sorted(list(set([... for version in lines if version.count('.') > 1])))
shipped_versions_of(lines) ==
    SortedStrings({shipped_version_of(lines[i]) :
                      i \in {j \in 1..Len(lines) : CountTok(lines[j], ".") > 1}})

\* lines 54 and 98: int(ocp_version.replace('v4.', '4'))
numeric_ocp_version_of(ocp_version) == int_of(ReplaceTok(ocp_version, "v4.", <<"4">>))

Ocp(minor) == <<"v4.">> \o minor

\* lines 29-30: the sorted platform list of the operation
RECURSIVE PlatformsInOrder(_, _)
PlatformsInOrder(config, order) ==
    IF Len(order) = 0 THEN <<>>
    ELSE <<config[CHOOSE i \in 1..Len(config) : config[i].version = Head(order)]>>
            \o PlatformsInOrder(config, Tail(order))

supported_ocp_versions_of(op, config) ==
    IF op = "validate-catalogs"
    THEN SortedStrings(Range(config))
    ELSE PlatformsInOrder(config, SortedStrings({config[i].version : i \in 1..Len(config)}))

\* line 93 and line 97: f'catalog-{version}.yaml' and the regex that reads it back
pcc_file_of(platform) == <<"catalog-">> \o platform.version \o <<".yaml">>
ocp_version_of_file(pcc_file) == SubSeq(pcc_file, 2, Len(pcc_file) - 1)

\* line 92
discontinuity_map(platforms, ocp_version) ==
    LET p == platforms[CHOOSE i \in 1..Len(platforms) : platforms[i].version = ocp_version]
    IN  IF "discontinued_from" \in DOMAIN p THEN p.discontinued_from
        ELSE DEFAULT_DISCONTINUED_FROM

\* the input files
ShippedLinePool ==
    { <<"v">> \o Ver("2", <<"8">>, "0") \o <<"\n">>,
      <<"v">> \o Ver("2", <<"9">>, "0") \o <<"\n">>,
      <<"v">> \o Ver("2", <<"1", "0">>, "0") \o <<"-", "rc", "\n">>,
      <<"v">> \o Ver("3", <<"0">>, "0") \o <<"\n">>,
      <<"\n">> }

BundlePool ==
    { operator_name_of(Ver("2", <<"8">>, "0")),
      operator_name_of(Ver("2", <<"1", "0">>, "0")),
      operator_name_of(Ver("3", <<"0">>, "0")) }

OcpPool == { Ocp(<<"1", "8">>), Ocp(<<"1", "9">>) }

PccPlatformPool ==
    {[version |-> v] : v \in OcpPool}
    \cup {[version |-> v, discontinued_from |-> operator_name_of(Ver("2", <<"1", "6">>, "0"))] :
             v \in OcpPool}

DistinctVersions(config) ==
    \A i, j \in 1..Len(config) : i # j => config[i].version # config[j].version

CatIdle ==
    /\ operation = "none"
    /\ build_config_versions = <<>>
    /\ shipped_lines = <<>>
    /\ supported_ocp_versions = <<>>
    /\ shipped_rhoai_versions = <<>>
    /\ catalogs = <<>>
    /\ missing_bundles = <<>>
    /\ incorrect_3x_bundles = <<>>
    /\ ocp_idx = 0
    /\ cat_pc = "idle"

CatInit ==
    /\ operation \in {"validate-catalogs", "validate-pcc"}
    /\ build_config_versions \in
          IF operation = "validate-catalogs"
          THEN SeqsUpTo(OcpPool, MaxPlatforms)
          ELSE {q \in SeqsUpTo(PccPlatformPool, MaxPlatforms) : DistinctVersions(q)}
    /\ shipped_lines \in SeqsUpTo(ShippedLinePool, MaxShipped)
    /\ supported_ocp_versions = <<>>
    /\ shipped_rhoai_versions = <<>>
    /\ catalogs = <<>>
    /\ missing_bundles = <<>>
    /\ incorrect_3x_bundles = <<>>
    /\ ocp_idx = 0
    /\ cat_pc = "new"

\* lines 21-37
catalog_validator_init ==
    /\ cat_pc = "new"
    /\ supported_ocp_versions' = supported_ocp_versions_of(operation, build_config_versions)
    /\ shipped_rhoai_versions' = shipped_versions_of(shipped_lines)
    /\ ocp_idx' = 1
    /\ cat_pc' = "loop"
    /\ UNCHANGED <<operation, build_config_versions, shipped_lines, catalogs,
                   missing_bundles, incorrect_3x_bundles>>

\* lines 61-62 and 107: the versions have lost their 'v' in __init__
bypassed_for_ocp(rhoai_version, numeric_ocp_version) ==
    /\ StartsWith(rhoai_version, <<"v", "3">>)
    /\ numeric_ocp_version < MIN_OCP_VERSION_FOR_RHOAI_30

\* lines 58-63: the operator names appended to missing_bundles[ocp_version]
catalogs_missing_for(bundles, numeric_ocp_version) ==
    SelectEntries(shipped_rhoai_versions,
        LAMBDA v : /\ operator_name_of(v) \notin bundles
                   /\ operator_name_of(v) \notin MISSING_BUNDLE_EXCEPTIONS
                   /\ ~bypassed_for_ocp(v, numeric_ocp_version))

\* lines 65-66
catalogs_incorrect_for(bundles, numeric_ocp_version) ==
    SelectEntries(shipped_rhoai_versions,
        LAMBDA v : /\ operator_name_of(v) \in bundles
                   /\ bypassed_for_ocp(v, numeric_ocp_version))

\* lines 104-111
pcc_missing_for(bundles, numeric_ocp_version, cutoff) ==
    SelectEntries(shipped_rhoai_versions,
        LAMBDA v : /\ operator_name_of(v) \notin bundles
                   /\ operator_name_of(v) \notin MISSING_BUNDLE_EXCEPTIONS
                   /\ ~bypassed_for_ocp(v, numeric_ocp_version)
                   /\ ~rhods_operator_ge(operator_name_of(v), cutoff))

RECURSIVE OperatorNames(_)
OperatorNames(versions) ==
    IF Len(versions) = 0 THEN <<>>
    ELSE <<operator_name_of(Head(versions))>> \o OperatorNames(Tail(versions))

\* lines 51-66: one iteration of the loop over the platforms
validate_catalogs_platform ==
    /\ cat_pc = "loop"
    /\ operation = "validate-catalogs"
    /\ ocp_idx <= Len(supported_ocp_versions)
    /\ \E bundles \in SUBSET BundlePool :
          LET ocp_version == supported_ocp_versions[ocp_idx]
              numeric_ocp_version == numeric_ocp_version_of(ocp_version)
          IN  /\ catalogs' = Append(catalogs, bundles)
              /\ missing_bundles' = Append(missing_bundles,
                    [key |-> ocp_version,
                     bundles |-> OperatorNames(
                                    catalogs_missing_for(bundles, numeric_ocp_version))])
              /\ incorrect_3x_bundles' = Append(incorrect_3x_bundles,
                    [key |-> ocp_version,
                     bundles |-> OperatorNames(
                                    catalogs_incorrect_for(bundles, numeric_ocp_version))])
    /\ ocp_idx' = ocp_idx + 1
    /\ UNCHANGED <<operation, build_config_versions, shipped_lines,
                   supported_ocp_versions, shipped_rhoai_versions, cat_pc>>

\* a mutation of any_bundles: only the first platform's list is looked at
first_bundles(report) == Len(report) > 0 /\ Len(report[1].bundles) > 0

\* lines 73, 80, 118: list(itertools.chain.from_iterable(...)) is not empty
any_bundles(report) == \E i \in 1..Len(report) : Len(report[i].bundles) > 0

\* lines 68-88: line 83 assigns incorrect_3x_bundles, bundles_incorrect stays False
validate_catalogs_decide ==
    /\ cat_pc = "loop"
    /\ operation = "validate-catalogs"
    /\ ocp_idx > Len(supported_ocp_versions)
    /\ LET bundles_missing == any_bundles(missing_bundles)
           bundles_incorrect == FALSE
       IN  cat_pc' = IF bundles_missing \/ bundles_incorrect THEN "exit" ELSE "returned"
    /\ incorrect_3x_bundles' =
          IF any_bundles(incorrect_3x_bundles) THEN <<TRUE>> ELSE incorrect_3x_bundles
    /\ UNCHANGED <<operation, build_config_versions, shipped_lines,
                   supported_ocp_versions, shipped_rhoai_versions, catalogs,
                   missing_bundles, ocp_idx>>

\* lines 96-111: one iteration of the loop over the pcc files
validate_pcc_platform ==
    /\ cat_pc = "loop"
    /\ operation = "validate-pcc"
    /\ ocp_idx <= Len(supported_ocp_versions)
    /\ \E bundles \in SUBSET BundlePool :
          LET pcc_file == pcc_file_of(supported_ocp_versions[ocp_idx])
              ocp_version == ocp_version_of_file(pcc_file)
              numeric_ocp_version == numeric_ocp_version_of(ocp_version)
              cutoff == discontinuity_map(supported_ocp_versions, ocp_version)
          IN  /\ catalogs' = Append(catalogs, bundles)
              /\ missing_bundles' = Append(missing_bundles,
                    [key |-> pcc_file,
                     bundles |-> OperatorNames(
                                    pcc_missing_for(bundles, numeric_ocp_version, cutoff))])
    /\ ocp_idx' = ocp_idx + 1
    /\ UNCHANGED <<operation, build_config_versions, shipped_lines,
                   supported_ocp_versions, shipped_rhoai_versions,
                   incorrect_3x_bundles, cat_pc>>

\* lines 115-123
validate_pcc_decide ==
    /\ cat_pc = "loop"
    /\ operation = "validate-pcc"
    /\ ocp_idx > Len(supported_ocp_versions)
    /\ cat_pc' = IF any_bundles(missing_bundles) THEN "exit" ELSE "returned"
    /\ UNCHANGED <<operation, build_config_versions, shipped_lines,
                   supported_ocp_versions, shipped_rhoai_versions, catalogs,
                   missing_bundles, incorrect_3x_bundles, ocp_idx>>

CatNext ==
    \/ catalog_validator_init
    \/ validate_catalogs_platform
    \/ validate_catalogs_decide
    \/ validate_pcc_platform
    \/ validate_pcc_decide

-----------------------------------------------------------------------------
(* util.py: apply_registry_and_repo_replacements *)

\* str.replace(old, new): every occurrence of old, left to right, without overlap
RECURSIVE ReplaceAll(_, _, _)
ReplaceAll(s, old, new) ==
    IF Len(s) < Len(old) \/ Len(old) = 0 THEN s
    ELSE IF SubSeq(s, 1, Len(old)) = old
         THEN new \o ReplaceAll(SubSeq(s, Len(old) + 1, Len(s)), old, new)
         ELSE <<Head(s)>> \o ReplaceAll(Tail(s), old, new)

\* lines 516-519: f'{registry}/{repo}@'
registry_repo_prefix(registry, repo) == registry \o <<"/">> \o repo \o <<"@">>

\* lines 515-519: the replacements of all repo mappings, in the order of the dict
RECURSIVE replace_repo_mappings(_, _, _, _)
replace_repo_mappings(value, source_registry, target_registry, mappings) ==
    IF Len(mappings) = 0 THEN value
    ELSE replace_repo_mappings(
            ReplaceAll(value,
                       registry_repo_prefix(source_registry, Head(mappings)[1]),
                       registry_repo_prefix(target_registry, Head(mappings)[2])),
            source_registry, target_registry, Tail(mappings))

\* a mutation of registry_mapping_invalid: only the empty mapping is rejected
registry_mapping_empty(mapping) == Len(mapping) = 0

\* line 505: len(registry_mapping) != 1
registry_mapping_invalid(mapping) == Len(mapping) # 1

Digest(d) == <<"sha256", ":", d>>

RemapValuePool ==
    { <<"quay.io", "/", "modh", "/", "odh-dashboard", "@">> \o Digest("d1"),
      <<"mirror.io", "/", "quay.io", "/", "modh", "/", "odh-dashboard", "@">> \o Digest("d1"),
      <<"quay.io", "/", "other", "/", "tool", "@">> \o Digest("d2"),
      <<"registry.redhat.io", "/", "modh", "/", "odh-dashboard", "@">> \o Digest("d1"),
      <<>> }

RegistryPairPool ==
    { <<(<<"quay.io">>), (<<"registry.redhat.io">>)>>,
      <<(<<"mirror.io">>), (<<"registry.redhat.io">>)>>,
      <<(<<"registry.redhat.io">>), (<<"registry.redhat.io">>)>> }

RepoPairPool ==
    { <<(<<"modh", "/", "odh-dashboard">>), (<<"rhoai", "/", "odh-dashboard-rhel9">>)>>,
      <<(<<"rhoai", "/", "odh-dashboard-rhel9">>), (<<"rhoai", "/", "odh-dashboard-rhel9">>)>>,
      <<(<<"rhoai", "/", "odh-dashboard-rhel9">>), (<<"rhoai", "/", "odh-dashboard">>)>> }

\* a dict has one value per key
DictPairs(pool) ==
    {q \in SeqsUpTo(pool, Cardinality(pool)) :
        \A i, j \in 1..Len(q) : i # j => q[i][1] # q[j][1]}

RECURSIVE ImageEntriesOf(_)
ImageEntriesOf(values) ==
    IF Len(values) = 0 THEN <<>>
    ELSE <<[name |-> <<"IMAGE">>, value |-> Head(values)]>> \o ImageEntriesOf(Tail(values))

RemapIdle ==
    /\ remap_image_entries = <<>>
    /\ registry_mapping = <<>>
    /\ repo_mappings = <<>>
    /\ remap_idx = 0
    /\ remap_pc = "idle"

RemapInit ==
    /\ \E values \in SeqsUpTo(RemapValuePool, MaxRemap) :
          remap_image_entries = ImageEntriesOf(values)
    /\ registry_mapping \in DictPairs(RegistryPairPool)
    /\ repo_mappings \in DictPairs(RepoPairPool)
    /\ remap_idx = 0
    /\ remap_pc = "start"

\* lines 504-507
remap_validate ==
    /\ remap_pc = "start"
    /\ remap_pc' = IF registry_mapping_invalid(registry_mapping) THEN "error" ELSE "loop"
    /\ remap_idx' = 1
    /\ UNCHANGED <<remap_image_entries, registry_mapping, repo_mappings>>

\* lines 509-522: one iteration of the loop over image_entries
remap_entry ==
    /\ remap_pc = "loop"
    /\ remap_idx <= Len(remap_image_entries)
    /\ LET source_registry == registry_mapping[1][1]
           target_registry == registry_mapping[1][2]
           original_value == remap_image_entries[remap_idx].value
           new_value == IF Len(original_value) > 0
                        THEN replace_repo_mappings(original_value, source_registry,
                                                   target_registry, repo_mappings)
                        ELSE original_value
       IN  remap_image_entries' =
              SubSeq(remap_image_entries, 1, remap_idx - 1)
                 \o <<[name |-> remap_image_entries[remap_idx].name, value |-> new_value]>>
                 \o SubSeq(remap_image_entries, remap_idx + 1, Len(remap_image_entries))
    /\ remap_idx' = remap_idx + 1
    /\ UNCHANGED <<registry_mapping, repo_mappings, remap_pc>>

\* line 523: the loop is over, the function returns None
remap_return ==
    /\ remap_pc = "loop"
    /\ remap_idx > Len(remap_image_entries)
    /\ remap_pc' = "returned"
    /\ UNCHANGED <<remap_image_entries, registry_mapping, repo_mappings, remap_idx>>

RemapNext == remap_validate \/ remap_entry \/ remap_return

-----------------------------------------------------------------------------------------------------------------------------------------------------
(* util.py: process_push_pipeline *)

\* line 336
disable_ext == "non-existent-file.non-existent-ext"

\* line 337: f'"{disable_ext}".pathChanged() && '
disable_expr == <<"\"", disable_ext, "\"", ".pathChanged()", " && ">>

\* str.lower() of the operation
Lower(op) ==
    IF op \in {"enable", "Enable", "ENABLE"} THEN "enable"
    ELSE IF op \in {"disable", "Disable", "DISABLE"} THEN "disable"
    ELSE op

\* the pieces a CEL expression is made of
CelPiecePool ==
    { disable_expr,
      <<"event == \"push\"">>,
      <<"\"", disable_ext, "\"", ".pathChanged()", " || ">>,
      <<"\"", "config.yaml", "\"", ".pathChanged()", " && ">> }

RECURSIVE Concat(_)
Concat(pieces) == IF Len(pieces) = 0 THEN <<>> ELSE Head(pieces) \o Concat(Tail(pieces))

CelExpressions == {Concat(q) : q \in SeqsUpTo(CelPiecePool, MaxCel)}

PushIdle ==
    /\ push_cel_expr = <<>>
    /\ push_operation = "none"
    /\ is_updated = FALSE
    /\ push_calls = 0

PushInit ==
    /\ push_cel_expr \in CelExpressions
    /\ push_operation \in {"enable", "disable", "Enable", "DISABLE"}
    /\ is_updated = FALSE
    /\ push_calls = 0

\* line 343
enable_applies(op, current_on_cel_expr) ==
    Lower(op) = "enable" /\ IsSubstring(<<disable_ext>>, current_on_cel_expr)

\* line 349
disable_applies(op, current_on_cel_expr) ==
    Lower(op) = "disable" /\ ~IsSubstring(<<disable_ext>>, current_on_cel_expr)

\* lines 335-360: one call, on the dict that the previous call returned
process_push_pipeline ==
    /\ push_calls < MaxCalls
    /\ IF enable_applies(push_operation, push_cel_expr)
       THEN /\ push_cel_expr' = ReplaceAll(push_cel_expr, disable_expr, <<>>)
            /\ is_updated' = TRUE
       ELSE IF disable_applies(push_operation, push_cel_expr)
       THEN /\ push_cel_expr' = disable_expr \o push_cel_expr
            /\ is_updated' = TRUE
       ELSE /\ push_cel_expr' = push_cel_expr
            /\ is_updated' = FALSE
    /\ push_calls' = push_calls + 1
    /\ UNCHANGED push_operation

PushNext == process_push_pipeline

-----------------------------------------------------------------------------
(* util.py: parse_image_value as a call *)

RepoTokenPool == {"foo", "/", "-rhel8", "-rhel9"}

\* image values: one or two segments, or registry/org/<repo>, with or without a digest
ImageValuePool ==
    LET bases == { <<"quay.io">>, <<"quay.io", "/", "org">> }
                 \cup { <<"quay.io", "/", "org", "/">> \o repo :
                           repo \in SeqsUpTo(RepoTokenPool, MaxRepoTokens) }
    IN  bases \cup { base \o <<"@">> \o Digest("d1") : base \in bases }

NoResult == [ok |-> FALSE, registry |-> <<>>, org |-> <<>>, repo |-> <<>>,
             component_name |-> <<>>, digest |-> <<>>]

ParseIdle ==
    /\ parse_value = <<>>
    /\ parse_result = NoResult
    /\ parse_pc = "idle"

ParseInit ==
    /\ parse_value \in ImageValuePool
    /\ parse_result = NoResult
    /\ parse_pc = "start"

\* lines 85-118: the call returns the dict, or parts[1] raises IndexError
parse_image_value_call ==
    /\ parse_pc = "start"
    /\ LET result == parse_image_value(parse_value)
       IN  /\ parse_result' = result
           /\ parse_pc' = IF result.ok THEN "returned" ELSE "error"
    /\ UNCHANGED parse_value

ParseNext == parse_image_value_call

-----
(* OperatorProcessor.process and BundleProcessor.process: the order of the
   steps of one run, the steps that end the run, and the files written *)

\* operator-processor.py, process(): the calls, in program order
OperatorStepsEagerWrite ==
    << "sync_yamls_from_bundle_patch", "fetch_latest_images_and_git_metadata",
       "update_operands_map", "write_output_files", "update_manifest_config",
       "process_push_pipeline" >>

OperatorSteps ==
    << "sync_yamls_from_bundle_patch", "fetch_latest_images_and_git_metadata",
       "update_operands_map", "update_manifest_config", "process_push_pipeline",
       "write_output_files" >>

\* bundle-processor.py, process(): the calls, in program order
BundleSteps ==
    << "fetch_operator_metadata", "fetch_operands_map_and_manifest_config",
       "generate_bundle_build_args", "apply_replacements", "patch_csv_yaml",
       "patch_annotations_yaml", "process_push_pipeline", "write_output_files" >>

ProcessSteps(kind) == IF kind = "operator" THEN OperatorSteps ELSE BundleSteps

\* write_output_files: the files written, in program order; the push
\* pipeline is written only when process_push_pipeline reported an update
OutputFiles(kind, updated) ==
    (IF kind = "operator"
     THEN << "nudging_yaml", "operands_map", "manifest_config" >>
     ELSE << "csv", "annotations", "bundle_build_args" >>)
    \o (IF updated THEN << "push_pipeline" >> ELSE << >>)

\* what one run finds in the registry and in its input documents
RunInputs ==
    { r \in [ has_images : BOOLEAN,              \* relatedImages is not empty
              missing_images : BOOLEAN,          \* a repository has no signed tag
              missing_git_labels : BOOLEAN,      \* an image lacks git.url / git.commit
              missing_components : BOOLEAN,      \* a manifest component has no metadata
              manifest_missing_labels : BOOLEAN, \* a component's metadata is empty
              operator_entries : 0..MaxOperatorEntries ] :
        ~r.has_images => (~r.missing_images /\ ~r.missing_git_labels) }

\* fetch_latest_images_and_git_metadata: the reason it exits, "" when it returns
fetch_exit(input) ==
    IF input.missing_images THEN "missing image"
    ELSE IF input.missing_git_labels THEN "missing git labels"
    ELSE ""

\* update_manifest_config: the reason it exits, "" when it returns
manifest_exit(input) ==
    IF input.missing_components THEN "missing component"
    ELSE IF input.manifest_missing_labels THEN "missing git labels"
    ELSE ""

\* fetch_operator_metadata: the reason it exits, "" when it returns
operator_metadata_exit(input) ==
    IF input.operator_entries > 1 THEN "duplicate operator entry"
    ELSE IF input.operator_entries = 0 THEN "missing operator entry"
    ELSE fetch_exit([input EXCEPT !.has_images = TRUE])

\* process(): the steps guarded by `if self.latest_images` / `if self.git_labels_meta`
step_skipped(kind, step, input) ==
    /\ kind = "operator"
    /\ step \in {"update_operands_map", "update_manifest_config"}
    /\ ~input.has_images

\* the reason a step ends the run, "" when the step returns
step_exit(kind, step, input) ==
    IF step_skipped(kind, step, input) THEN ""
    ELSE IF step = "fetch_latest_images_and_git_metadata" THEN fetch_exit(input)
    ELSE IF step = "update_manifest_config" THEN manifest_exit(input)
    ELSE IF step = "fetch_operator_metadata" THEN operator_metadata_exit(input)
    ELSE ""

ProcIdle ==
    /\ proc_kind = "none"
    /\ proc_input = [has_images |-> FALSE, missing_images |-> FALSE,
                     missing_git_labels |-> FALSE, missing_components |-> FALSE,
                     manifest_missing_labels |-> FALSE, operator_entries |-> 0]
    /\ proc_step = 0
    /\ is_push_pipeline_updated = FALSE
    /\ files_written = << >>
    /\ proc_status = "idle"
    /\ proc_error = ""

\* the state after the constructor: the documents are loaded, nothing is written
ProcInit ==
    /\ proc_kind \in {"operator", "bundle"}
    /\ proc_input \in RunInputs
    /\ proc_step = 1
    /\ is_push_pipeline_updated = FALSE
    /\ files_written = << >>
    /\ proc_status = "running"
    /\ proc_error = ""

current_step == ProcessSteps(proc_kind)[proc_step]

\* the step after position i, or the end of process()
proc_advance(i) ==
    IF i < Len(ProcessSteps(proc_kind))
    THEN /\ proc_step' = i + 1
         /\ proc_status' = "running"
    ELSE /\ proc_step' = i
         /\ proc_status' = "done"

\* one resolution, validation or patch step of process()
process_step ==
    /\ proc_status = "running"
    /\ current_step \notin {"process_push_pipeline", "write_output_files"}
    /\ LET why == step_exit(proc_kind, current_step, proc_input)
       IN  IF why # ""
           THEN /\ proc_status' = "failed"
                /\ proc_error' = why
                /\ UNCHANGED proc_step
           ELSE /\ proc_advance(proc_step)
                /\ UNCHANGED proc_error
    /\ UNCHANGED <<proc_kind, proc_input, is_push_pipeline_updated, files_written>>

\* self.is_push_pipeline_updated, ... = util.process_push_pipeline(...)
process_push_step ==
    /\ proc_status = "running"
    /\ current_step = "process_push_pipeline"
    /\ \E updated \in BOOLEAN : is_push_pipeline_updated' = updated
    /\ proc_advance(proc_step)
    /\ UNCHANGED <<proc_kind, proc_input, files_written, proc_error>>

\* write_output_files: one write_yaml_file / write_file call
write_output_file ==
    /\ proc_status = "running"
    /\ current_step = "write_output_files"
    /\ LET outputs == OutputFiles(proc_kind, is_push_pipeline_updated)
           n == Len(files_written)
       IN  /\ n < Len(outputs)
           /\ files_written' = Append(files_written, outputs[n + 1])
           /\ IF n + 1 = Len(outputs)
              THEN proc_advance(proc_step)
              ELSE UNCHANGED <<proc_step, proc_status>>
    /\ UNCHANGED <<proc_kind, proc_input, is_push_pipeline_updated, proc_error>>

ProcNext == process_step \/ process_push_step \/ write_output_file

-----
(* operator-processor.py: the keyed merge of update_operands_map and of
   sync_yamls_from_bundle_patch, applied a second time with the same source *)

\* a mutation of keyed_merge: the source list is appended to the target list
keyed_merge_extend(target_doc, source_doc) ==
    SetField(target_doc, "relatedImages",
             L(target_doc.v["relatedImages"].v \o source_doc.v["relatedImages"].v))

\* line 108 and lines 204-208: updateJson(target, source,
\*     meta={'listPatchScheme': {'$.relatedImages': {'key': 'name'}}})
keyed_merge(target_doc, source_doc) ==
    updateJson(target_doc, source_doc, <<>>, related_images_meta)

\* elements of the relatedImages lists: same key with other values, another
\* key, and an element with a field of its own
MergeElementPool ==
    { DictDoc(Entry(Name("A"), "a")),
      DictDoc(Entry(Name("A"), "a2")),
      DictDoc(Entry(Name("B"), "b")),
      DictDoc([name |-> Name("A"), value |-> <<"a">>, optional |-> <<"keep">>]) }

RelatedImagesDoc(list) ==
    O([f \in {"relatedImages", "apiVersion"} |->
          IF f = "relatedImages" THEN L(list) ELSE S(<<"v1">>)])

RemergeIdle ==
    /\ merge_target = O(EmptyDict)
    /\ merge_source = O(EmptyDict)
    /\ merge_first = O(EmptyDict)
    /\ merge_second = O(EmptyDict)
    /\ remerge_pc = "idle"

RemergeInit ==
    /\ \E tl \in SeqsUpTo(MergeElementPool, MaxMergeList) :
          merge_target = RelatedImagesDoc(tl)
    /\ \E sl \in SeqsUpTo(MergeElementPool, MaxMergeList) :
          merge_source = O([f \in {"relatedImages"} |-> L(sl)])
    /\ merge_first = O(EmptyDict)
    /\ merge_second = O(EmptyDict)
    /\ remerge_pc = "start"

\* the merge of the target with the source
merge_once ==
    /\ remerge_pc = "start"
    /\ merge_first' = keyed_merge(merge_target, merge_source)
    /\ remerge_pc' = "merged"
    /\ UNCHANGED <<merge_target, merge_source, merge_second>>

\* the merge of that result with the same source
merge_again ==
    /\ remerge_pc = "merged"
    /\ merge_second' = keyed_merge(merge_first, merge_source)
    /\ remerge_pc' = "remerged"
    /\ UNCHANGED <<merge_target, merge_source, merge_first>>

RemergeNext == merge_once \/ merge_again

-----
(* operator-processor.py sync_yamls_from_bundle_patch on a heap: the dicts of
   the lists are objects with an identity, so that a merge that updates its
   arguments in place can be told from one that builds new objects *)

\* the dicts at the given addresses, in order
RECURSIVE Deref(_, _)
Deref(h, ids) ==
    IF Len(ids) = 0 THEN <<>> ELSE <<h[Head(ids)]>> \o Deref(h, Tail(ids))

\* the addresses lo, lo + 1, ..., hi in order
RECURSIVE Addresses(_, _)
Addresses(lo, hi) == IF lo > hi THEN <<>> ELSE <<lo>> \o Addresses(lo + 1, hi)

\* a mutation of to_plain_dict_on_heap: the argument itself is returned
same_objects_on_heap(h, ids) == [heap |-> h, ids |-> ids]

\* util.py to_plain_dict: json.loads(json.dumps(obj)) builds new dicts
to_plain_dict_on_heap(h, ids) ==
    [heap |-> h \o Deref(h, ids), ids |-> Addresses(Len(h) + 1, Len(h) + Len(ids))]

\* deduplicate_and_sort and filter_image_entries return the dicts they were
\* given: the address of the first dict with each kept name
FirstAddressNamed(h, ids, n) ==
    ids[CHOOSE i \in 1..Len(ids) :
            /\ h[ids[i]].name = n
            /\ \A j \in 1..(i - 1) : h[ids[j]].name # n]

RECURSIVE AddressesNamed(_, _, _)
AddressesNamed(h, ids, entries) ==
    IF Len(entries) = 0 THEN <<>>
    ELSE <<FirstAddressNamed(h, ids, Head(entries).name)>>
            \o AddressesNamed(h, ids, Tail(entries))

filtered_images_on_heap(h, ids) ==
    AddressesNamed(h, ids,
        filter_image_entries(deduplicate_and_sort(Deref(h, ids), TRUE), <<>>,
                             SYNC_EXCLUDE_FILTER))

\* a dict updated with the fields of another
DictUpdated(t, s) ==
    [f \in DOMAIN t \cup DOMAIN s |-> IF f \in DOMAIN s THEN s[f] ELSE t[f]]

\* KeyedMerge (spec 4.5) of two lists of dicts keyed by name, writing into the
\* target: a matched target dict is updated where it is, an unmatched source
\* dict is appended by reference
RECURSIVE merge_lists_in_place(_, _, _)
merge_lists_in_place(h, tids, sids) ==
    IF Len(sids) = 0 THEN [heap |-> h, ids |-> tids]
    ELSE LET s == Head(sids)
             hit == {i \in 1..Len(tids) : h[tids[i]].name = h[s].name}
         IN  IF hit = {}
             THEN merge_lists_in_place(h, Append(tids, s), Tail(sids))
             ELSE LET i == CHOOSE k \in hit : \A j \in hit : k <= j
                  IN  merge_lists_in_place(
                          [h EXCEPT ![tids[i]] = DictUpdated(h[tids[i]], h[s])],
                          tids, Tail(sids))

\* jsonupdate_ng.updateJson on lists keyed by name: in place, or on copies of
\* both arguments
updateJson_on_heap(h, tids, sids, in_place) ==
    IF in_place THEN merge_lists_in_place(h, tids, sids)
    ELSE LET t == to_plain_dict_on_heap(h, tids)
             s == to_plain_dict_on_heap(t.heap, sids)
         IN  merge_lists_in_place(s.heap, t.ids, s.ids)

RECURSIVE KeepNamed(_, _, _)
KeepNamed(h, ids, names) ==
    IF Len(ids) = 0 THEN <<>>
    ELSE (IF h[Head(ids)].name \in names THEN <<Head(ids)>> ELSE <<>>)
            \o KeepNamed(h, Tail(ids), names)

AliasIdle ==
    /\ heap = <<>>
    /\ heap_patch = <<>>
    /\ heap_filtered = <<>>
    /\ heap_operands = <<>>
    /\ heap_nudging = <<>>
    /\ merges_in_place = FALSE
    /\ alias_pc = "idle"

\* the loaded documents: the dicts of the patch list, then those of the nudging list
AliasInit ==
    /\ \E patch \in SeqsUpTo(PatchEntryPool, MaxHeapList),
          nudging \in SeqsUpTo(NudgingEntryPool, MaxHeapList) :
          /\ heap = Deref(patch, Addresses(1, Len(patch)))
                        \o Deref(nudging, Addresses(1, Len(nudging)))
          /\ heap_patch = Addresses(1, Len(patch))
          /\ heap_nudging = Addresses(Len(patch) + 1, Len(patch) + Len(nudging))
    /\ heap_filtered = <<>>
    /\ heap_operands = <<>>
    /\ merges_in_place \in BOOLEAN
    /\ alias_pc = "start"

\* lines 165-218 on the heap
sync_yamls_on_heap ==
    /\ alias_pc = "start"
    /\ LET filtered == filtered_images_on_heap(heap, heap_patch)
           names    == {heap[filtered[i]].name : i \in 1..Len(filtered)}
           \* line 192: copy.deepcopy(filtered_images)
           operands == to_plain_dict_on_heap(heap, filtered)
           \* lines 205-206: both arguments of updateJson go through to_plain_dict
           target   == to_plain_dict_on_heap(operands.heap, filtered)
           source   == to_plain_dict_on_heap(target.heap, heap_nudging)
           merged   == updateJson_on_heap(source.heap, target.ids, source.ids,
                                          merges_in_place)
       IN  /\ heap' = merged.heap
           /\ heap_filtered' = filtered
           /\ heap_operands' = operands.ids
           /\ heap_nudging' = KeepNamed(merged.heap, merged.ids, names)
    /\ alias_pc' = "synced"
    /\ UNCHANGED <<heap_patch, merges_in_place>>

AliasNext == sync_yamls_on_heap

-----
(* bundle-processor.py: generate_bundle_build_args *)

\* str.upper() of a token
UpperTok(t) ==
    CASE t = "rhods" -> "RHODS" [] t = "operator" -> "OPERATOR" [] t = "odh" -> "ODH"
      [] t = "dashboard" -> "DASHBOARD" [] t = "kserve" -> "KSERVE"
      [] t = "git" -> "GIT" [] t = "url" -> "URL" [] t = "commit" -> "COMMIT"
      [] OTHER -> t

RECURSIVE Upper(_)
Upper(s) == IF Len(s) = 0 THEN <<>> ELSE <<UpperTok(Head(s))>> \o Upper(Tail(s))

\* the characters of a label key constant
LabelKeyStr(label_key) ==
    IF label_key = GIT_URL_LABEL_KEY THEN <<"git", ".", "url">>
    ELSE <<"git", ".", "commit">>

\* lines 210-211: f'{component.replace("-", "_").upper()}_{KEY.replace(".", "_").upper()}={value}\n'
build_arg_line(component, label_key, git_meta) ==
    Upper(ReplaceTok(component, "-", <<"_">>)) \o <<"_">>
        \o Upper(ReplaceTok(LabelKeyStr(label_key), ".", <<"_">>))
        \o <<"=">> \o git_meta[label_key] \o <<"\n">>

\* a mutation of has_build_args: every component gets its lines
has_build_args_always(git_meta) == TRUE

\* line 209: if 'ref_type' not in git_meta
has_build_args(git_meta) == "ref_type" \notin DOMAIN git_meta

\* {**a, **b} on dicts kept as (key, value) pairs in insertion order: a key of
\* b that a has takes b's value at a's position, a new key is appended
RECURSIVE DictUnpack(_, _)
DictUnpack(a, b) ==
    IF Len(b) = 0 THEN a
    ELSE LET hit == {i \in 1..Len(a) : a[i][1] = Head(b)[1]}
         IN  IF hit = {} THEN DictUnpack(Append(a, Head(b)), Tail(b))
             ELSE LET i == CHOOSE k \in hit : TRUE
                  IN  DictUnpack(SubSeq(a, 1, i - 1) \o <<Head(b)>>
                                    \o SubSeq(a, i + 1, Len(a)), Tail(b))

\* lines 207-213: the loop over the items of the combined dict
RECURSIVE build_args_of(_)
build_args_of(items) ==
    IF Len(items) = 0 THEN <<>>
    ELSE (IF has_build_args(Head(items)[2])
          THEN build_arg_line(Head(items)[1], GIT_URL_LABEL_KEY, Head(items)[2])
                 \o build_arg_line(Head(items)[1], GIT_COMMIT_LABEL_KEY, Head(items)[2])
          ELSE <<>>)
         \o build_args_of(Tail(items))

ComponentPool == { <<"rhods", "-", "operator">>, <<"odh", "-", "dashboard">>, <<"kserve">> }

\* provenance as the resolver returns it, and manifest-config entries pinned
\* to a branch
ResolvedMetaPool ==
    { GitMeta(<<"https://github.com/org/a">>, <<"c1">>),
      GitMeta(<<"https://github.com/org/b">>, <<"c2">>) }

BranchMeta ==
    [k \in {GIT_URL_LABEL_KEY, GIT_COMMIT_LABEL_KEY, "ref_type"} |->
        IF k = GIT_URL_LABEL_KEY THEN <<"https://github.com/org/a">>
        ELSE IF k = GIT_COMMIT_LABEL_KEY THEN <<"main">> ELSE <<"branch">>]

\* dicts of up to n items with keys and values of the given sets
MetaDicts(keys, metas, n) ==
    {q \in SeqsUpTo(keys \X metas, n) :
        \A i, j \in 1..Len(q) : i # j => q[i][1] # q[j][1]}

ArgsIdle ==
    /\ operator_git_metadata_map = <<>>
    /\ manifest_config_map = <<>>
    /\ additional_meta = <<>>
    /\ bundle_build_args = <<>>
    /\ args_pc = "idle"

\* fetch_operator_metadata leaves one component in operator_git_metadata['map']
ArgsInit ==
    /\ operator_git_metadata_map \in
          {<<(<<(<<"rhods", "-", "operator">>), m>>)>> : m \in ResolvedMetaPool}
    /\ manifest_config_map \in
          MetaDicts(ComponentPool, ResolvedMetaPool \cup {BranchMeta}, MaxMetaItems)
    /\ additional_meta \in MetaDicts(ComponentPool, ResolvedMetaPool, MaxMetaItems)
    /\ bundle_build_args = <<>>
    /\ args_pc = "start"

\* lines 199-215
generate_bundle_build_args ==
    /\ args_pc = "start"
    /\ bundle_build_args' =
          build_args_of(DictUnpack(DictUnpack(operator_git_metadata_map,
                                              manifest_config_map), additional_meta))
    /\ args_pc' = "generated"
    /\ UNCHANGED <<operator_git_metadata_map, manifest_config_map, additional_meta>>

ArgsNext == generate_bundle_build_args

-----
(* bundle-processor.py: fetch_operator_metadata *)

\* str.lower() of a build type
LowerBuildType(t) ==
    IF t \in {"nightly", "Nightly", "NIGHTLY"} THEN "nightly"
    ELSE IF t \in {"ci", "CI"} THEN "ci"
    ELSE t

\* a mutation of version_tag: the build type is compared as it was given
version_tag_exact_case(rhoai_version, build_type) ==
    IF build_type = "nightly" THEN rhoai_version \o <<"-nightly">> ELSE rhoai_version

\* line 154: f'{self.rhoai_version}-nightly' if self.build_type.lower() == 'nightly'
\*           else self.rhoai_version
version_tag(rhoai_version, build_type) ==
    IF LowerBuildType(build_type) = "nightly" THEN rhoai_version \o <<"-nightly">>
    ELSE rhoai_version

\* the relatedImages of the bundle patch
OperatorPatchPool ==
    { Entry(Name("ODH_OPERATOR"), "op"),
      [name |-> <<"RELATED_IMAGE_", "ODH_OPERATOR", "_V2", "_IMAGE">>, value |-> <<"op2">>],
      Entry(Name("A"), "a"),
      Entry(Name("BUNDLE"), "b") }

OpMetaIdle ==
    /\ bundle_patch_images = <<>>
    /\ self_build_type = "none"
    /\ self_rhoai_version = <<>>
    /\ operator_queries = <<>>
    /\ opmeta_pc = "idle"

OpMetaInit ==
    /\ bundle_patch_images \in SeqsUpTo(OperatorPatchPool, MaxBundlePatch)
    /\ self_build_type \in {"nightly", "Nightly", "NIGHTLY", "ci", "CI", "release"}
    /\ self_rhoai_version \in {<<"rhoai-2.16">>, <<"rhoai-3.0">>}
    /\ operator_queries = <<>>
    /\ opmeta_pc = "start"

\* lines 127-167: up to the call of fetch_latest_images_and_git_metadata, whose
\* registry queries carry image_tag
fetch_operator_metadata ==
    /\ opmeta_pc = "start"
    /\ LET odh_operator_entry ==
               filter_image_entries(bundle_patch_images, <<(<<"ODH_OPERATOR">>)>>, <<>>)
       IN  IF Len(odh_operator_entry) > 1 \/ Len(odh_operator_entry) = 0
           THEN /\ opmeta_pc' = "exit"
                /\ UNCHANGED operator_queries
           ELSE /\ operator_queries' =
                      Append(operator_queries,
                             [image_entries |-> odh_operator_entry,
                              image_tag |-> version_tag(self_rhoai_version, self_build_type),
                              use_github_override |-> TRUE])
                /\ opmeta_pc' = "fetching"
    /\ UNCHANGED <<bundle_patch_images, self_build_type, self_rhoai_version>>

OpMetaNext == fetch_operator_metadata

-----
(* operator-processor.py: update_manifest_config *)

\* dict.get(key, '') on a dict of str
GetOrEmpty(d, key) == IF key \in DOMAIN d THEN d[key] ELSE <<>>

\* the value of a key of a dict kept as (key, value) items; the key is there
ItemValue(items, key) == items[CHOOSE i \in 1..Len(items) : items[i][1] = key][2]

ItemKeys(items) == {items[i][1] : i \in 1..Len(items)}

\* a mutation of skips_component: no component is skipped
skips_no_component(manifest_config) == FALSE

\* lines 123-126: if manifest_config.get('ref_type') == 'branch': continue
skips_component(manifest_config) == GetOrEmpty(manifest_config, "ref_type") = <<"branch">>

\* lines 141-143: the two assignments into manifest_config
with_git_metadata(manifest_config, git_url, git_commit) ==
    [k \in DOMAIN manifest_config \cup {GIT_URL_LABEL_KEY, GIT_COMMIT_LABEL_KEY} |->
        IF k = GIT_URL_LABEL_KEY THEN git_url
        ELSE IF k = GIT_COMMIT_LABEL_KEY THEN git_commit
        ELSE manifest_config[k]]

\* manifest-config entries: pinned to a branch, pinned to a tag, not pinned
TagMeta ==
    [k \in {GIT_URL_LABEL_KEY, GIT_COMMIT_LABEL_KEY, "ref_type"} |->
        IF k = GIT_URL_LABEL_KEY THEN <<"https://github.com/org/old">>
        ELSE IF k = GIT_COMMIT_LABEL_KEY THEN <<"v1">> ELSE <<"tag">>]

ManifestConfigPool ==
    { BranchMeta, TagMeta, GitMeta(<<"https://github.com/org/old">>, <<"c0">>) }

\* provenance as the resolver collected it, an empty commit included
ProvenancePool ==
    ResolvedMetaPool \cup { GitMeta(<<"https://github.com/org/a">>, <<>>) }

RECURSIVE AdditionalMetaOf(_, _)
AdditionalMetaOf(labels, known) ==
    IF Len(labels) = 0 THEN <<>>
    ELSE (IF Head(labels)[1] \notin known THEN <<Head(labels)>> ELSE <<>>)
            \o AdditionalMetaOf(Tail(labels), known)

ManifestIdle ==
    /\ manifest_before = <<>>
    /\ manifest_map = <<>>
    /\ git_labels_map = <<>>
    /\ mc_missing_components = <<>>
    /\ mc_missing_git_labels = <<>>
    /\ mc_additional_meta = <<>>
    /\ mc_idx = 0
    /\ mc_pc = "idle"

ManifestInit ==
    /\ manifest_before \in MetaDicts(ComponentPool, ManifestConfigPool, MaxManifestItems)
    /\ manifest_map = manifest_before
    /\ git_labels_map \in MetaDicts(ComponentPool, ProvenancePool, MaxManifestItems)
    /\ mc_missing_components = <<>>
    /\ mc_missing_git_labels = <<>>
    /\ mc_additional_meta = <<>>
    /\ mc_idx = 1
    /\ mc_pc = "loop"

\* lines 122-146: one iteration of the loop over manifest_config_dict['map']
update_manifest_component ==
    /\ mc_pc = "loop"
    /\ mc_idx <= Len(manifest_map)
    /\ LET component == manifest_map[mc_idx][1]
           manifest_config == manifest_map[mc_idx][2]
       IN  IF skips_component(manifest_config)
           THEN UNCHANGED <<manifest_map, mc_missing_components, mc_missing_git_labels>>
           ELSE IF component \notin ItemKeys(git_labels_map)
           THEN /\ mc_missing_components' = Append(mc_missing_components, component)
                /\ UNCHANGED <<manifest_map, mc_missing_git_labels>>
           ELSE LET git_meta == ItemValue(git_labels_map, component)
                    git_url == GetOrEmpty(git_meta, GIT_URL_LABEL_KEY)
                    git_commit == GetOrEmpty(git_meta, GIT_COMMIT_LABEL_KEY)
                IN  IF git_url # <<>> /\ git_commit # <<>>
                    THEN /\ manifest_map' =
                              SubSeq(manifest_map, 1, mc_idx - 1)
                                \o << <<component,
                                        with_git_metadata(manifest_config, git_url,
                                                          git_commit)>> >>
                                \o SubSeq(manifest_map, mc_idx + 1, Len(manifest_map))
                         /\ UNCHANGED <<mc_missing_components, mc_missing_git_labels>>
                    ELSE /\ mc_missing_git_labels' =
                              Append(mc_missing_git_labels, component)
                         /\ UNCHANGED <<manifest_map, mc_missing_components>>
    /\ mc_idx' = mc_idx + 1
    /\ UNCHANGED <<manifest_before, git_labels_map, mc_additional_meta, mc_pc>>

\* lines 148-163: additional_meta, then the two exits
update_manifest_finish ==
    /\ mc_pc = "loop"
    /\ mc_idx > Len(manifest_map)
    /\ mc_additional_meta' = AdditionalMetaOf(git_labels_map, ItemKeys(manifest_map))
    /\ mc_pc' = IF Len(mc_missing_components) > 0 THEN "exit"
                ELSE IF Len(mc_missing_git_labels) > 0 THEN "exit"
                ELSE "returned"
    /\ UNCHANGED <<manifest_before, manifest_map, git_labels_map,
                   mc_missing_components, mc_missing_git_labels, mc_idx>>

ManifestNext == update_manifest_component \/ update_manifest_finish

-----
(* util.py: deduplicate_and_sort as a call *)

DedupIdle ==
    /\ dedup_entries = <<>>
    /\ dedup_sort = FALSE
    /\ dedup_result = <<>>
    /\ dedup_pc = "idle"

DedupInit ==
    /\ dedup_entries \in SeqsUpTo(PatchEntryPool, MaxDedup)
    /\ dedup_sort \in BOOLEAN
    /\ dedup_result = <<>>
    /\ dedup_pc = "start"

\* lines 39-82, key = 'name'
deduplicate_and_sort_call ==
    /\ dedup_pc = "start"
    /\ dedup_result' = deduplicate_and_sort(dedup_entries, dedup_sort)
    /\ dedup_pc' = "returned"
    /\ UNCHANGED <<dedup_entries, dedup_sort>>

DedupNext == deduplicate_and_sort_call

-----
(* util.py: filter_image_entries as a call *)

\* lines 141-143: if include_filter and exclude_filter: raise ValueError
filter_rejects(include_filter, exclude_filter) ==
    Len(include_filter) > 0 /\ Len(exclude_filter) > 0

FilterEntryPool ==
    { Entry(Name("A"), "a"), Entry(Name("FBC"), "f"), Entry(Name("BUNDLE"), "b"),
      Entry(Name("ODH_OPERATOR"), "op") }

\* non-empty pattern lists: the one of the sync, the one of
\* fetch_operator_metadata, and others
PatternLists ==
    { SYNC_EXCLUDE_FILTER, <<(<<"ODH_OPERATOR">>)>>, <<(<<"A">>), (<<"BUNDLE">>)>>,
      <<(<<"_IMAGE">>)>> }

NoFilterResult == [raised |-> FALSE, entries |-> <<>>]

FilterIdle ==
    /\ filter_entries = <<>>
    /\ filter_patterns = <<>>
    /\ included = NoFilterResult
    /\ excluded = NoFilterResult
    /\ rejected = NoFilterResult
    /\ filter_pc = "idle"

FilterInit ==
    /\ filter_entries \in SeqsUpTo(FilterEntryPool, MaxFilter)
    /\ filter_patterns \in PatternLists
    /\ included = NoFilterResult
    /\ excluded = NoFilterResult
    /\ rejected = NoFilterResult
    /\ filter_pc = "start"

\* lines 121-174: one call; a raised ValueError returns no list
filter_image_entries_result(image_entries_arg, include_filter, exclude_filter) ==
    IF filter_rejects(include_filter, exclude_filter)
    THEN [raised |-> TRUE, entries |-> <<>>]
    ELSE [raised |-> FALSE,
          entries |-> filter_image_entries(image_entries_arg, include_filter,
                                           exclude_filter)]

\* filter_image_entries(image_entries, include_filter=P)
filter_include_call ==
    /\ filter_pc = "start"
    /\ included' = filter_image_entries_result(filter_entries, filter_patterns, <<>>)
    /\ filter_pc' = "included"
    /\ UNCHANGED <<filter_entries, filter_patterns, excluded, rejected>>

\* filter_image_entries(image_entries, exclude_filter=P)
filter_exclude_call ==
    /\ filter_pc = "included"
    /\ excluded' = filter_image_entries_result(filter_entries, <<>>, filter_patterns)
    /\ filter_pc' = "excluded"
    /\ UNCHANGED <<filter_entries, filter_patterns, included, rejected>>

\* filter_image_entries(image_entries, include_filter=P, exclude_filter=P)
filter_both_call ==
    /\ filter_pc = "excluded"
    /\ rejected' = filter_image_entries_result(filter_entries, filter_patterns,
                                               filter_patterns)
    /\ filter_pc' = "rejected"
    /\ UNCHANGED <<filter_entries, filter_patterns, included, excluded>>

FilterNext == filter_include_call \/ filter_exclude_call \/ filter_both_call

-----
(* Specifications: one per program, the other programs idle *)

InitFetch ==
    FetchInit /\ OpIdle /\ EnvIdle /\ CmpIdle /\ CatIdle
    /\ RemapIdle /\ PushIdle /\ ParseIdle /\ ProcIdle
    /\ RemergeIdle /\ AliasIdle /\ ArgsIdle /\ OpMetaIdle
    /\ ManifestIdle /\ DedupIdle /\ FilterIdle
SpecFetch ==
    InitFetch
    /\ [][FetchNext /\ UNCHANGED <<op_vars, env_vars, cmp_vars, cat_vars, remap_vars,
                          push_vars, parse_vars, proc_vars, remerge_vars,
                          alias_vars, args_vars, opmeta_vars, manifest_vars,
                          dedup_vars, filter_vars>>]_vars

InitSync ==
    SyncInit /\ FetchIdle /\ EnvIdle /\ CmpIdle /\ CatIdle
    /\ RemapIdle /\ PushIdle /\ ParseIdle /\ ProcIdle
    /\ RemergeIdle /\ AliasIdle /\ ArgsIdle /\ OpMetaIdle
    /\ ManifestIdle /\ DedupIdle /\ FilterIdle
SpecSync ==
    InitSync
    /\ [][SyncNext /\ UNCHANGED <<fetch_vars, env_vars, cmp_vars, cat_vars, remap_vars,
                          push_vars, parse_vars, proc_vars, remerge_vars,
                          alias_vars, args_vars, opmeta_vars, manifest_vars,
                          dedup_vars, filter_vars>>]_vars

InitMerge ==
    UpdateInit /\ EnvInit /\ FetchIdle /\ CmpIdle /\ CatIdle
    /\ RemapIdle /\ PushIdle /\ ParseIdle /\ ProcIdle
    /\ RemergeIdle /\ AliasIdle /\ ArgsIdle /\ OpMetaIdle
    /\ ManifestIdle /\ DedupIdle /\ FilterIdle
SpecMerge ==
    InitMerge
    /\ [][MergeNext /\ UNCHANGED <<fetch_vars, cmp_vars, cat_vars, remap_vars, push_vars,
                          parse_vars, proc_vars, remerge_vars, alias_vars,
                          args_vars, opmeta_vars, manifest_vars, dedup_vars,
                          filter_vars>>]_vars

InitCmp ==
    CmpInit /\ FetchIdle /\ OpIdle /\ EnvIdle /\ CatIdle
    /\ RemapIdle /\ PushIdle /\ ParseIdle /\ ProcIdle
    /\ RemergeIdle /\ AliasIdle /\ ArgsIdle /\ OpMetaIdle
    /\ ManifestIdle /\ DedupIdle /\ FilterIdle
SpecCmp ==
    InitCmp
    /\ [][CmpNext /\ UNCHANGED <<fetch_vars, op_vars, env_vars, cat_vars, remap_vars,
                          push_vars, parse_vars, proc_vars, remerge_vars,
                          alias_vars, args_vars, opmeta_vars, manifest_vars,
                          dedup_vars, filter_vars>>]_vars

InitCatalog ==
    CatInit /\ FetchIdle /\ OpIdle /\ EnvIdle /\ CmpIdle
    /\ RemapIdle /\ PushIdle /\ ParseIdle /\ ProcIdle
    /\ RemergeIdle /\ AliasIdle /\ ArgsIdle /\ OpMetaIdle
    /\ ManifestIdle /\ DedupIdle /\ FilterIdle
SpecCatalog ==
    InitCatalog
    /\ [][CatNext /\ UNCHANGED <<fetch_vars, op_vars, env_vars, cmp_vars, remap_vars,
                          push_vars, parse_vars, proc_vars, remerge_vars,
                          alias_vars, args_vars, opmeta_vars, manifest_vars,
                          dedup_vars, filter_vars>>]_vars

InitRemap ==
    RemapInit /\ FetchIdle /\ OpIdle /\ EnvIdle /\ CmpIdle
    /\ CatIdle /\ PushIdle /\ ParseIdle /\ ProcIdle
    /\ RemergeIdle /\ AliasIdle /\ ArgsIdle /\ OpMetaIdle
    /\ ManifestIdle /\ DedupIdle /\ FilterIdle
SpecRemap ==
    InitRemap
    /\ [][RemapNext /\ UNCHANGED <<fetch_vars, op_vars, env_vars, cmp_vars, cat_vars,
                          push_vars, parse_vars, proc_vars, remerge_vars,
                          alias_vars, args_vars, opmeta_vars, manifest_vars,
                          dedup_vars, filter_vars>>]_vars

InitPush ==
    PushInit /\ FetchIdle /\ OpIdle /\ EnvIdle /\ CmpIdle
    /\ CatIdle /\ RemapIdle /\ ParseIdle /\ ProcIdle
    /\ RemergeIdle /\ AliasIdle /\ ArgsIdle /\ OpMetaIdle
    /\ ManifestIdle /\ DedupIdle /\ FilterIdle
SpecPush ==
    InitPush
    /\ [][PushNext /\ UNCHANGED <<fetch_vars, op_vars, env_vars, cmp_vars, cat_vars,
                          remap_vars, parse_vars, proc_vars, remerge_vars,
                          alias_vars, args_vars, opmeta_vars, manifest_vars,
                          dedup_vars, filter_vars>>]_vars

InitParse ==
    ParseInit /\ FetchIdle /\ OpIdle /\ EnvIdle /\ CmpIdle
    /\ CatIdle /\ RemapIdle /\ PushIdle /\ ProcIdle
    /\ RemergeIdle /\ AliasIdle /\ ArgsIdle /\ OpMetaIdle
    /\ ManifestIdle /\ DedupIdle /\ FilterIdle
SpecParse ==
    InitParse
    /\ [][ParseNext /\ UNCHANGED <<fetch_vars, op_vars, env_vars, cmp_vars, cat_vars,
                          remap_vars, push_vars, proc_vars, remerge_vars,
                          alias_vars, args_vars, opmeta_vars, manifest_vars,
                          dedup_vars, filter_vars>>]_vars

InitProcess ==
    ProcInit /\ FetchIdle /\ OpIdle /\ EnvIdle /\ CmpIdle
    /\ CatIdle /\ RemapIdle /\ PushIdle /\ ParseIdle
    /\ RemergeIdle /\ AliasIdle /\ ArgsIdle /\ OpMetaIdle
    /\ ManifestIdle /\ DedupIdle /\ FilterIdle
SpecProcess ==
    InitProcess
    /\ [][ProcNext /\ UNCHANGED <<fetch_vars, op_vars, env_vars, cmp_vars, cat_vars,
                          remap_vars, push_vars, parse_vars, remerge_vars,
                          alias_vars, args_vars, opmeta_vars, manifest_vars,
                          dedup_vars, filter_vars>>]_vars

InitRemerge ==
    RemergeInit /\ FetchIdle /\ OpIdle /\ EnvIdle /\ CmpIdle
    /\ CatIdle /\ RemapIdle /\ PushIdle /\ ParseIdle
    /\ ProcIdle /\ AliasIdle /\ ArgsIdle /\ OpMetaIdle
    /\ ManifestIdle /\ DedupIdle /\ FilterIdle
SpecRemerge ==
    InitRemerge
    /\ [][RemergeNext /\ UNCHANGED <<fetch_vars, op_vars, env_vars, cmp_vars, cat_vars,
                          remap_vars, push_vars, parse_vars, proc_vars,
                          alias_vars, args_vars, opmeta_vars, manifest_vars,
                          dedup_vars, filter_vars>>]_vars

InitAlias ==
    AliasInit /\ FetchIdle /\ OpIdle /\ EnvIdle /\ CmpIdle
    /\ CatIdle /\ RemapIdle /\ PushIdle /\ ParseIdle
    /\ ProcIdle /\ RemergeIdle /\ ArgsIdle /\ OpMetaIdle
    /\ ManifestIdle /\ DedupIdle /\ FilterIdle
SpecAlias ==
    InitAlias
    /\ [][AliasNext /\ UNCHANGED <<fetch_vars, op_vars, env_vars, cmp_vars, cat_vars,
                          remap_vars, push_vars, parse_vars, proc_vars,
                          remerge_vars, args_vars, opmeta_vars, manifest_vars,
                          dedup_vars, filter_vars>>]_vars

InitArgs ==
    ArgsInit /\ FetchIdle /\ OpIdle /\ EnvIdle /\ CmpIdle
    /\ CatIdle /\ RemapIdle /\ PushIdle /\ ParseIdle
    /\ ProcIdle /\ RemergeIdle /\ AliasIdle /\ OpMetaIdle
    /\ ManifestIdle /\ DedupIdle /\ FilterIdle
SpecArgs ==
    InitArgs
    /\ [][ArgsNext /\ UNCHANGED <<fetch_vars, op_vars, env_vars, cmp_vars, cat_vars,
                          remap_vars, push_vars, parse_vars, proc_vars,
                          remerge_vars, alias_vars, opmeta_vars, manifest_vars,
                          dedup_vars, filter_vars>>]_vars

InitOpMeta ==
    OpMetaInit /\ FetchIdle /\ OpIdle /\ EnvIdle /\ CmpIdle
    /\ CatIdle /\ RemapIdle /\ PushIdle /\ ParseIdle
    /\ ProcIdle /\ RemergeIdle /\ AliasIdle /\ ArgsIdle
    /\ ManifestIdle /\ DedupIdle /\ FilterIdle
SpecOpMeta ==
    InitOpMeta
    /\ [][OpMetaNext /\ UNCHANGED <<fetch_vars, op_vars, env_vars, cmp_vars, cat_vars,
                          remap_vars, push_vars, parse_vars, proc_vars,
                          remerge_vars, alias_vars, args_vars, manifest_vars,
                          dedup_vars, filter_vars>>]_vars

InitManifest ==
    ManifestInit /\ FetchIdle /\ OpIdle /\ EnvIdle
    /\ CmpIdle /\ CatIdle /\ RemapIdle /\ PushIdle
    /\ ParseIdle /\ ProcIdle /\ RemergeIdle /\ AliasIdle
    /\ ArgsIdle /\ OpMetaIdle /\ DedupIdle /\ FilterIdle
SpecManifest ==
    InitManifest
    /\ [][ManifestNext /\ UNCHANGED <<fetch_vars, op_vars, env_vars, cmp_vars, cat_vars,
                          remap_vars, push_vars, parse_vars, proc_vars,
                          remerge_vars, alias_vars, args_vars, opmeta_vars,
                          dedup_vars, filter_vars>>]_vars

InitDedup ==
    DedupInit /\ FetchIdle /\ OpIdle /\ EnvIdle /\ CmpIdle
    /\ CatIdle /\ RemapIdle /\ PushIdle /\ ParseIdle
    /\ ProcIdle /\ RemergeIdle /\ AliasIdle /\ ArgsIdle
    /\ OpMetaIdle /\ ManifestIdle /\ FilterIdle
SpecDedup ==
    InitDedup
    /\ [][DedupNext /\ UNCHANGED <<fetch_vars, op_vars, env_vars, cmp_vars, cat_vars,
                          remap_vars, push_vars, parse_vars, proc_vars,
                          remerge_vars, alias_vars, args_vars, opmeta_vars,
                          manifest_vars, filter_vars>>]_vars

InitFilter ==
    FilterInit /\ FetchIdle /\ OpIdle /\ EnvIdle /\ CmpIdle
    /\ CatIdle /\ RemapIdle /\ PushIdle /\ ParseIdle
    /\ ProcIdle /\ RemergeIdle /\ AliasIdle /\ ArgsIdle
    /\ OpMetaIdle /\ ManifestIdle /\ DedupIdle
SpecFilter ==
    InitFilter
    /\ [][FilterNext /\ UNCHANGED <<fetch_vars, op_vars, env_vars, cmp_vars, cat_vars,
                          remap_vars, push_vars, parse_vars, proc_vars,
                          remerge_vars, alias_vars, args_vars, opmeta_vars,
                          manifest_vars, dedup_vars>>]_vars

-----------------------------------------------------------------------------
(* Claims about fetch_latest_images_and_git_metadata, under SpecFetch *)

RepoOf(entry) == parse_image_value(entry.value).repo
ComponentOf(entry) == parse_image_value(entry.value).component_name
DigestOf(entry) == parse_image_value(entry.value).digest
AllRepos == [i \in 1..Len(image_entries) |-> RepoOf(image_entries[i])]
FailedOnMissing == fetch_pc = "exit"
                   /\ fetch_report.kind \in {"missing_images", "missing_git_labels"}

\* C1: whenever the resolver returns, the returned list holds one resolved entry
\* for each input entry (same names, same order) and the provenance map holds a
\* non-empty url and commit for the component of each input entry.
C1_NeverPartialBatch ==
    fetch_pc = "returned" =>
        /\ Len(latest_images) = Len(image_entries)
        /\ \A i \in 1..Len(image_entries) :
              /\ i <= Len(latest_images)
              /\ latest_images[i].name = image_entries[i].name
              /\ ComponentOf(image_entries[i]) \in DOMAIN git_labels_meta
              /\ git_labels_meta[ComponentOf(image_entries[i])][GIT_URL_LABEL_KEY] # ""
              /\ git_labels_meta[ComponentOf(image_entries[i])][GIT_COMMIT_LABEL_KEY] # ""

\* C2: collect-then-fail: a run that ends on a missing image or on missing git
\* labels has queried the registry for every entry of the batch, in order, and
\* the outer loop has passed the last entry.
C2_CollectThenFail ==
    FailedOnMissing =>
        /\ tag_queries = AllRepos
        /\ entry_idx = Len(image_entries) + 1

\* C2 witness: the first of two entries had no tag, the second one was still
\* queried and resolved, and the run then failed.
C2_Witness ==
    /\ FailedOnMissing
    /\ Len(image_entries) = 2
    /\ missing_images = <<RepoOf(image_entries[1])>>
    /\ Len(latest_images) = 1
    /\ latest_images[1].name = image_entries[2].name

\* C3: the report emitted before the non-zero exit names every offending
\* component of both kinds.
C3_ReportNamesAllOffenders ==
    FailedOnMissing =>
        Range(missing_images) \cup Range(missing_git_labels) \subseteq Range(fetch_report.names)

\* C4: the resolved digest is the digest of the earliest tag, in registry order,
\* whose signature tag (':' -> '-', suffix '.sig') had a non-empty lookup; one
\* lookup was issued per tag up to the selected one and none after it.
C4_FirstSignedTag ==
    /\ \A i \in 1..Len(sig_lookups) :
          /\ i <= Len(tags)
          /\ sig_lookups[i].tag =
                ReplaceTok(tags[i].manifest_digest, ":", <<"-">>) \o <<".sig">>
    /\ selected = 0 => \A i \in 1..Len(sig_lookups) : ~sig_lookups[i].found
    /\ selected # 0 =>
          /\ Len(sig_lookups) = selected
          /\ sig_lookups[selected].found
          /\ \A i \in 1..(selected - 1) : ~sig_lookups[i].found
          /\ Len(latest_images) > 0
          /\ DigestOf(latest_images[Len(latest_images)]) = tags[selected].manifest_digest

\* C4 witness: the first tag had no signature and the second one was selected.
C4_Witness ==
    /\ selected = 2
    /\ Len(tags) = 2
    /\ ~sig_lookups[1].found
    /\ tags[1].manifest_digest # tags[2].manifest_digest
    /\ DigestOf(latest_images[Len(latest_images)]) = tags[2].manifest_digest

-----------------------------------------------------------------------------
(* Claims about sync_yamls_from_bundle_patch, under SpecSync *)

RelatedImagesOf(doc) ==
    IF "relatedImages" \in DOMAIN doc.v THEN DocList(doc.v["relatedImages"]) ELSE <<>>

NamesOf(entries) == {entries[i].name : i \in 1..Len(entries)}

ValuesFor(entries, n) ==
    {entries[i].value : i \in {j \in 1..Len(entries) : entries[j].name = n}}

\* the names of the authoritative list that survive the exclusion filter
AuthoritativeNames ==
    {n \in NamesOf(patch_related_images) : ~MatchesAny(n, SYNC_EXCLUDE_FILTER)}

SyncedAsClaimed(before, after) ==
    /\ NamesOf(after) = AuthoritativeNames
    /\ Len(after) = Cardinality(AuthoritativeNames)
    /\ \A i \in 1..Len(after) :
          IF after[i].name \in NamesOf(before)
          THEN after[i].value \in ValuesFor(before, after[i].name)
          ELSE after[i].value = FirstWithKey(patch_related_images, after[i].name).value

\* C5: after the sync the nudging relatedImages list holds exactly the names of
\* the deduplicated, exclusion-filtered authoritative list, each once; a name
\* that was in the destination keeps a destination value, a name only in the
\* authoritative list gets the authoritative (first occurrence) value, and
\* destination entries with other names are dropped.
C5_SyncAndFilter ==
    [][(op_pc = "start" /\ op_pc' = "synced") =>
          SyncedAsClaimed(RelatedImagesOf(nudging_yaml_dict),
                          RelatedImagesOf(nudging_yaml_dict'))]_vars

\* C5 witness: the authoritative list [A:new, B:new2] was synced and the result is
\* [A:pinned, B:new2]: A kept the value pinned in the destination, B was added.
C5_Witness ==
    /\ op_pc = "synced"
    /\ patch_related_images = <<Entry(Name("A"), "new"), Entry(Name("B"), "new2")>>
    /\ RelatedImagesOf(nudging_yaml_dict) =
          <<Entry(Name("A"), "pinned"), Entry(Name("B"), "new2")>>

-----------------------------------------------------------------------------
(* Claims on SpecMerge *)

KeyOf(d) == d.v["name"]
KeysOf(docs) == {KeyOf(docs[i]) : i \in 1..Len(docs)}
ElementsOf(docs) == {docs[i] : i \in 1..Len(docs)}

\* source fields overwrite, target-only sub-fields are kept
OverwrittenBy(t, s) ==
    O([f \in DOMAIN t.v \cup DOMAIN s.v |-> IF f \in DOMAIN s.v THEN s.v[f] ELSE t.v[f]])

KeyedMergeAsClaimed(tl, sl, rl) ==
    LET unmatched == {e \in ElementsOf(sl) : KeyOf(e) \notin KeysOf(tl)}
    IN  /\ Len(rl) = Len(tl) + Cardinality(unmatched)
        /\ \A i \in 1..Len(tl) :
              /\ KeyOf(tl[i]) \notin KeysOf(sl) => rl[i] = tl[i]
              /\ \A j \in 1..Len(sl) :
                    KeyOf(sl[j]) = KeyOf(tl[i]) => rl[i] = OverwrittenBy(tl[i], sl[j])
        /\ {rl[i] : i \in (Len(tl) + 1)..Len(rl)} = unmatched

SiblingsUntouched(before, after, listKey) ==
    /\ DOMAIN after.v = DOMAIN before.v
    /\ \A f \in DOMAIN before.v \ {listKey} : after.v[f] = before.v[f]

\* the example of spec section 8
ExampleTarget ==
    O([f \in {"id", "x"} |->
         IF f = "id" THEN S(<<"1">>)
         ELSE O([g \in {"a"} |-> L(<<DictDoc([name |-> <<"p">>, v |-> <<"1">>])>>)])])
ExampleSource ==
    O([f \in {"x"} |->
         O([g \in {"a"} |-> L(<<DictDoc([name |-> <<"p">>, v |-> <<"2">>]),
                                DictDoc([name |-> <<"q">>, v |-> <<"3">>])>>)])])
ExampleMerged == updateJson(ExampleTarget, ExampleSource, <<>>, ListPatchScheme(<<"x", "a">>, "name"))
ExampleAsClaimed ==
    /\ ExampleMerged.v["x"].v["a"].v = <<DictDoc([name |-> <<"p">>, v |-> <<"2">>]),
                                         DictDoc([name |-> <<"q">>, v |-> <<"3">>])>>
    /\ ExampleMerged.v["id"] = S(<<"1">>)

\* C6: KeyedMerge on a list governed by the scheme: a source element whose key
\* equals the key of a target element is merged into that target element
\* (source fields overwrite, target-only sub-fields are kept), a source element
\* with no matching key is appended after the target elements, a target element
\* with no matching source element is preserved unchanged, and the keys of the
\* enclosing object that are absent from source are untouched.
C6_KeyedMerge ==
    [][ /\ (env_pc = "start" /\ env_pc' = "merged") =>
              /\ KeyedMergeAsClaimed(existing_env_vars, DictDocs(new_env_vars),
                                     final_env_vars')
              /\ ExampleAsClaimed
        /\ (op_pc = "fetched" /\ op_pc' = "updated") =>
              /\ KeyedMergeAsClaimed(operands_map_dict.v["relatedImages"].v,
                                     DictDocs(self_latest_images),
                                     operands_map_dict'.v["relatedImages"].v)
              /\ SiblingsUntouched(operands_map_dict, operands_map_dict',
                                   "relatedImages") ]_vars

\* C6 witness: the env merge has overwritten the value of A and kept its
\* target-only field, appended STALE, and kept OPERATOR_NAMESPACE unchanged
C6_Witness ==
    /\ env_pc = "merged"
    /\ existing_env_vars =
          <<DictDoc([name |-> Name("A"), value |-> <<"old">>, optional |-> <<"keep">>]),
            DictDoc([name |-> <<"OPERATOR_NAMESPACE">>, valueFrom |-> <<"fieldRef">>])>>
    /\ new_env_vars = <<Entry(Name("STALE"), "new3"), Entry(Name("A"), "new")>>
    /\ final_env_vars =
          <<DictDoc([name |-> Name("A"), value |-> <<"new">>, optional |-> <<"keep">>]),
            DictDoc([name |-> <<"OPERATOR_NAMESPACE">>, valueFrom |-> <<"fieldRef">>]),
            DictDoc(Entry(Name("STALE"), "new3"))>>
    /\ op_pc = "updated"
    /\ Len(self_latest_images) = 1
    /\ Len(operands_map_dict.v["relatedImages"].v) = 2

-----------------------------------------------------------------------------
(* Claims about rhods_operator.__ge__, under SpecCmp *)

NumTuple(version) ==
    LET s == semver(version) IN <<int_of(s[1]), int_of(s[2]), int_of(s[3])>>

TupleGe(x, y) ==
    \/ x[1] > y[1]
    \/ x[1] = y[1] /\ (x[2] > y[2] \/ (x[2] = y[2] /\ x[3] >= y[3]))

NumericGe(a, b) == TupleGe(NumTuple(a), NumTuple(b))

\* C7: the comparator agrees with the numeric comparison of the (major, minor,
\* patch) tuples: a >= b holds exactly when the integer tuple of a is greater
\* than or equal to that of b, also when the components differ in their number
\* of digits; in particular rhods-operator.2.10.0 >= rhods-operator.2.9.5 holds.
C7_ComparatorAgreesWithNumeric ==
    cmp_pc = "done" =>
        /\ cmp_result <=> NumericGe(cmp_self, cmp_other)
        /\ (/\ cmp_self = operator_name_of(Ver("2", <<"1", "0">>, "0"))
            /\ cmp_other = operator_name_of(Ver("2", <<"9">>, "5")))
           => cmp_result

-----------------------------------------------------------------------------
(* Claims about validate_catalogs and validate_pcc, under SpecCatalog *)

PlatformVersion(i) ==
    IF operation = "validate-catalogs" THEN supported_ocp_versions[i]
    ELSE supported_ocp_versions[i].version

PlatformKey(i) ==
    IF operation = "validate-catalogs" THEN supported_ocp_versions[i]
    ELSE pcc_file_of(supported_ocp_versions[i])

RecordedMissing(i) == Range(missing_bundles[i].bundles)

ExpectedNames == {operator_name_of(v) : v \in Range(shipped_rhoai_versions)}

\* a 3.x release on a platform below 4.19
ExcludedByMinPlatform(name, i) ==
    /\ NumTuple(name)[1] = 3
    /\ numeric_ocp_version_of(PlatformVersion(i)) < MIN_OCP_VERSION_FOR_RHOAI_30

\* C8: a version is recorded missing for a platform only if its bundle is absent
\* from that platform's catalog, it is not in the exception list, and it is not
\* excluded by the minimum-platform-version rule; in particular a 3.x release
\* absent from the catalog of a platform below 4.19 is not recorded as missing.
C8_MissingOnlyIfRequired ==
    \A i \in 1..Len(missing_bundles) :
        \A name \in RecordedMissing(i) :
            /\ name \notin catalogs[i]
            /\ name \notin MISSING_BUNDLE_EXCEPTIONS
            /\ ~ExcludedByMinPlatform(name, i)

HasCutoff(i) == "discontinued_from" \in DOMAIN supported_ocp_versions[i]

\* C9: in validate_pcc, on a platform with cutoff c, an absent, non-excepted
\* expected version is left out of the missing report exactly when it is
\* numerically greater than or equal to c, and is recorded missing when it is
\* numerically lower; on a platform without a cutoff the discontinuity rule
\* leaves no expected version out.
C9_CutoffIsNumeric ==
    operation = "validate-pcc" =>
        \A i \in 1..Len(missing_bundles) :
            \A name \in ExpectedNames :
                (name \notin catalogs[i] /\ name \notin MISSING_BUNDLE_EXCEPTIONS) =>
                    IF HasCutoff(i)
                    THEN name \in RecordedMissing(i)
                            <=> ~NumericGe(name, supported_ocp_versions[i].discontinued_from)
                    ELSE ~ExcludedByMinPlatform(name, i) => name \in RecordedMissing(i)

-----------------------------------------------------------------------------
(* Claims about apply_registry_and_repo_replacements, under SpecRemap *)

\* the value starts with sourceRegistry/<r>@ for a source repo path r of the mapping
HasMappedPrefix(value) ==
    \E k \in 1..Len(repo_mappings) :
        StartsWith(value, registry_repo_prefix(registry_mapping[1][1], repo_mappings[k][1]))

\* C11: the remapping is exact-prefix, not substring-anywhere: an entry whose
\* value does not start with sourceRegistry/<r>@ for a source repo path r of
\* the repo mapping keeps its value.
C11_ExactPrefixOnly ==
    [][(remap_pc = "loop" /\ remap_idx <= Len(remap_image_entries)) =>
          (~HasMappedPrefix(remap_image_entries[remap_idx].value) =>
              remap_image_entries'[remap_idx].value
                 = remap_image_entries[remap_idx].value)]_vars

\* C12: the call fails whenever the registry mapping does not hold exactly one
\* pair (none, or two or more), and then no image entry has been modified.
C12_InvalidMappingFails ==
    [][ /\ remap_pc = "start" =>
              ((Len(registry_mapping) # 1) <=> (remap_pc' = "error"))
        /\ remap_pc' = "error" => remap_image_entries' = remap_image_entries
        /\ remap_pc # "error" ]_vars

\* C12 witness: a mapping of two pairs was rejected, with an entry that the first
\* pair would have rewritten still holding its value
C12_Witness ==
    /\ remap_pc = "error"
    /\ Len(registry_mapping) = 2
    /\ Len(repo_mappings) > 0
    /\ Len(remap_image_entries) > 0
    /\ replace_repo_mappings(remap_image_entries[1].value, registry_mapping[1][1],
                             registry_mapping[1][2], repo_mappings)
          # remap_image_entries[1].value

\* the number of pairs of the mappings, taken in the order of the dict, whose
\* replacement changes the value it receives
RECURSIVE rewrites_of(_, _, _, _)
rewrites_of(value, source_registry, target_registry, mappings) ==
    IF Len(mappings) = 0 THEN 0
    ELSE LET replaced == ReplaceAll(value,
                            registry_repo_prefix(source_registry, Head(mappings)[1]),
                            registry_repo_prefix(target_registry, Head(mappings)[2]))
         IN  (IF replaced # value THEN 1 ELSE 0)
                + rewrites_of(replaced, source_registry, target_registry, Tail(mappings))

-----------------------------------------------------------------------------
(* Claims about process_push_pipeline, under SpecPush *)

\* C13: the toggle is idempotent for both operations: applying the operation to
\* the result of a call with the same operation returns is_updated = False and
\* leaves the expression unchanged, also for an expression that contains the
\* sentinel file name without the exact guard clause.
C13_ToggleIdempotent ==
    [][(push_calls >= 1 /\ push_calls' = push_calls + 1) =>
          (~is_updated' /\ push_cel_expr' = push_cel_expr)]_vars

-----------------------------------------------------------------------------
(* Claims about parse_image_value, under SpecParse *)

\* the '/'-separated segments of the value before its digest
SegmentsBeforeDigest(value) == SplitOn(SplitOn(value, "@")[1], "/")

HasPlatformSuffix(path) == EndsWithTok(path, "-rhel8") \/ EndsWithTok(path, "-rhel9")

\* the path without one trailing platform suffix
WithoutTrailingSuffix(path) ==
    IF HasPlatformSuffix(path) THEN SubSeq(path, 1, Len(path) - 1) ELSE path

\* C14: for an image reference registry/org/path, component_name is the repo
\* path with exactly one trailing platform suffix (-rhel8 or -rhel9) removed and
\* nothing else (an occurrence inside the path is kept), and deriving it again
\* from the result returns the same value.
C14_ComponentNameStripsOneSuffix ==
    (parse_pc = "returned" /\ Len(SegmentsBeforeDigest(parse_value)) >= 3) =>
        /\ parse_result.component_name = WithoutTrailingSuffix(parse_result.repo)
        /\ parse_image_value(parse_result.registry \o <<"/">> \o parse_result.org
                                \o <<"/">> \o parse_result.component_name).component_name
              = parse_result.component_name

\* C15: parsing a value whose path before the digest has fewer than three
\* '/'-separated segments fails with an error and yields no result.
C15_FewerThanThreeSegmentsFails ==
    (parse_pc # "start" /\ Len(SegmentsBeforeDigest(parse_value)) < 3) =>
        (parse_pc = "error" /\ parse_result = NoResult)

-----------------------------------------------------------------------------
(* Claims about the provenance of a resolved entry, under SpecFetch *)

\* the last entry of the batch has just been resolved, labels included
EntryResolved ==
    /\ selected > 0
    /\ fetch_pc # "scan"
    /\ labels_response.has_labels

ResolvedEntry == image_entries[entry_idx - 1]
ResolvedMeta == git_labels_meta[ComponentOf(ResolvedEntry)]

\* a label of the response with this key and a non-empty value
LabelPresent(k) ==
    \E i \in 1..Len(labels_response.labels) :
        labels_response.labels[i].key = k /\ labels_response.labels[i].value # ""

LabelValue(k) ==
    IF LabelPresent(k)
    THEN labels_response.labels[CHOOSE i \in 1..Len(labels_response.labels) :
             /\ labels_response.labels[i].key = k
             /\ labels_response.labels[i].value # ""].value
    ELSE ""

\* C16: labels with empty values count as absent; without the override the
\* result is (git.url, git.commit) and the github.* labels are never used; with
\* the override github.url replaces git.url when present, github.commit replaces
\* git.commit when present, and a field without upstream label keeps its git.* value.
C16_ProvenanceExtraction ==
    EntryResolved =>
        /\ ResolvedMeta[GIT_URL_LABEL_KEY] =
              IF use_github_override /\ LabelPresent(GITHUB_URL_LABEL_KEY)
              THEN LabelValue(GITHUB_URL_LABEL_KEY) ELSE LabelValue(GIT_URL_LABEL_KEY)
        /\ ResolvedMeta[GIT_COMMIT_LABEL_KEY] =
              IF use_github_override /\ LabelPresent(GITHUB_COMMIT_LABEL_KEY)
              THEN LabelValue(GITHUB_COMMIT_LABEL_KEY) ELSE LabelValue(GIT_COMMIT_LABEL_KEY)

\* C16 witness: with the override, github.url has replaced git.url while the
\* empty github.commit left git.commit in place
C16_Witness ==
    /\ EntryResolved
    /\ use_github_override
    /\ LabelPresent(GIT_URL_LABEL_KEY)
    /\ LabelPresent(GITHUB_URL_LABEL_KEY)
    /\ ~LabelPresent(GITHUB_COMMIT_LABEL_KEY)
    /\ ResolvedMeta[GIT_URL_LABEL_KEY] = "https://up/y"
    /\ ResolvedMeta[GIT_COMMIT_LABEL_KEY] = "abc"

FooEntry ==
    [name  |-> <<"RELATED_IMAGE_", "FOO", "_IMAGE">>,
     value |-> <<"quay.io", "/", "org", "/", "foo", "-rhel9", "@">>]

\* the scenario: the single entry FOO, one tag, signed, with git.url and git.commit
EndToEndScenario ==
    /\ image_entries = <<FooEntry>>
    /\ fetch_pc \in {"returned", "exit"}
    /\ Len(tags) = 1
    /\ selected = 1
    /\ labels_response.labels =
          <<Label("git.url", "https://x/y"), Label("git.commit", "abc")>>

\* C18: for the single entry FOO with value quay.io/org/foo-rhel9@ and a registry
\* returning one signed tag with digest d and labels git.url = u, git.commit = c,
\* the resolver returns one entry with the same name and the value
\* quay.io/org/foo-rhel9@d, and the map {foo: {git.url: u, git.commit: c}}.
C18_EndToEnd ==
    EndToEndScenario =>
        /\ fetch_pc = "returned"
        /\ latest_images =
              <<[name  |-> FooEntry.name,
                 value |-> <<"quay.io", "/", "org", "/", "foo", "-rhel9", "@">>
                              \o tags[1].manifest_digest]>>
        /\ DOMAIN git_labels_meta = {<<"foo">>}
        /\ git_labels_meta[<<"foo">>] = GitMeta("https://x/y", "abc")

\* C18 witness: the scenario has run to its end
C18_Witness ==
    /\ EndToEndScenario
    /\ fetch_pc = "returned"
    /\ Len(latest_images) = 1
    /\ ~use_github_override

RECURSIVE NamesInOrder(_)
NamesInOrder(list) ==
    IF Len(list) = 0 THEN <<>> ELSE <<Head(list).v["name"].v>> \o NamesInOrder(Tail(list))

\* C20: merging the result of merge(target, source, scheme) with the same
\* source again yields the same document: no matched element is duplicated
\* and no element is appended a second time.
C20_RemergeIdempotent ==
    remerge_pc = "remerged" =>
        /\ merge_second = merge_first
        /\ Len(merge_second.v["relatedImages"].v)
               = Len(merge_first.v["relatedImages"].v)

\* C20 witness: a re-merge after a merge that both overwrote a matched
\* element and appended an unmatched one
C20_Witness ==
    /\ remerge_pc = "remerged"
    /\ NamesInOrder(merge_target.v["relatedImages"].v) = <<Name("A")>>
    /\ NamesInOrder(merge_source.v["relatedImages"].v) = <<Name("A"), Name("B")>>
    /\ merge_first # merge_target
    /\ NamesInOrder(merge_first.v["relatedImages"].v) = <<Name("A"), Name("B")>>
    /\ merge_second = merge_first

TextLines(text) ==
    LET pieces == SplitOn(text, "\n") IN SubSeq(pieces, 1, Len(pieces) - 1)

\* the provenance of a component in the combined map: the last of the three
\* maps that names it
CombinedMeta(c) ==
    LET pick(d) == {d[i][2] : i \in {j \in 1..Len(d) : d[j][1] = c}}
    IN  IF pick(additional_meta) # {} THEN pick(additional_meta)
        ELSE IF pick(manifest_config_map) # {} THEN pick(manifest_config_map)
        ELSE pick(operator_git_metadata_map)

ArgKey(c, suffix) == Upper(ReplaceTok(c, "-", <<"_">>)) \o <<"_", "GIT", "_", suffix>>

\* C22: the build-args text holds, for each component of the combined map
\* without a ref_type field, exactly one URL line followed by its commit
\* line, KEY=VALUE with the key made of the upper-cased component name with
\* '-' replaced by '_', and no line for a component with a ref_type field.
C22_BuildArgsLines ==
    args_pc = "generated" =>
        LET lines == TextLines(bundle_build_args)
        IN  \A c \in ComponentPool :
              LET urls == {i \in 1..Len(lines) :
                              StartsWith(lines[i], ArgKey(c, "URL") \o <<"=">>)}
                  commits == {i \in 1..Len(lines) :
                              StartsWith(lines[i], ArgKey(c, "COMMIT") \o <<"=">>)}
              IN  IF \E m \in CombinedMeta(c) : "ref_type" \notin DOMAIN m
                  THEN \E m \in CombinedMeta(c), i \in 1..(Len(lines) - 1) :
                          /\ urls = {i}
                          /\ commits = {i + 1}
                          /\ lines[i] = ArgKey(c, "URL") \o <<"=">> \o m[GIT_URL_LABEL_KEY]
                          /\ lines[i + 1] =
                                ArgKey(c, "COMMIT") \o <<"=">> \o m[GIT_COMMIT_LABEL_KEY]
                  ELSE urls = {} /\ commits = {}

\* C22 witness: a text with the lines of two components, generated from maps
\* where a third component is pinned to a branch
C22_Witness ==
    /\ args_pc = "generated"
    /\ Len(TextLines(bundle_build_args)) = 4
    /\ \E i \in 1..Len(manifest_config_map) :
          "ref_type" \in DOMAIN manifest_config_map[i][2]
    /\ Len(additional_meta) > 0

\* C23: the resolver never modifies the name or the value of an input entry,
\* and every returned entry is a dict of its own, distinct from every input
\* dict and from the other returned dicts, with the name of its input entry
\* and the resolved value registry/org/repo@digest.
C23_DefensiveCopies ==
    [][/\ image_entries' = image_entries
       /\ Len(latest_refs') = Len(latest_images')
       /\ \A i \in 1..Len(latest_refs') :
             /\ latest_refs'[i] \notin 1..Len(image_entries)
             /\ \A j \in 1..Len(latest_refs') : i # j => latest_refs'[i] # latest_refs'[j]
       /\ Len(latest_images') > Len(latest_images) =>
             LET input == image_entries[entry_idx]
                 out   == latest_images'[Len(latest_images')]
             IN  /\ out.name = input.name
                 /\ out.value = resolved_value(parse_image_value(input.value),
                                               tags[selected'].manifest_digest)]_vars

\* C23 witness: two entries were resolved, the second one from an input value
\* that carried an old digest, and that input still carries it
C23_Witness ==
    /\ Len(latest_images) = 2
    /\ Len(latest_refs) = 2
    /\ image_entries[2].value # latest_images[2].value
    /\ image_entries[2].name = latest_images[2].name
    /\ IsSubstring(<<"sha256", ":", "old">>, image_entries[2].value)

\* the bundle of an expected 3.x release is in the catalog of platform i,
\* a platform below 4.19
ThreeXOnOldPlatform(i) ==
    \E name \in ExpectedNames :
        /\ name \in catalogs[i]
        /\ ExcludedByMinPlatform(name, i)

\* C24: validate_catalogs keeps 3.x off the platforms below 4.19: whenever the
\* bundle of an expected 3.x release is in the catalog of such a platform, the
\* bundle is recorded as incorrect for that platform and the run exits
\* non-zero instead of returning.
C24_ThreeXRejectedBelowMinPlatform ==
    operation = "validate-catalogs" =>
        /\ \A i \in 1..Len(catalogs) :
              (ThreeXOnOldPlatform(i) /\ cat_pc = "loop") =>
                  Len(incorrect_3x_bundles[i].bundles) > 0
        /\ cat_pc = "returned" =>
              \A i \in 1..Len(catalogs) : ~ThreeXOnOldPlatform(i)

\* the number of entries of the bundle patch whose name contains ODH_OPERATOR
OperatorEntryCount ==
    Cardinality({i \in 1..Len(bundle_patch_images) :
                    IsSubstring(<<"ODH_OPERATOR">>, bundle_patch_images[i].name)})

\* C25: fetch_operator_metadata needs exactly one entry whose name contains
\* ODH_OPERATOR: with none or with several the run exits before any registry
\* query; with exactly one, that entry is queried with the tag
\* <version>-nightly when the build type is nightly in any letter case, and
\* with the tag <version> otherwise.
C25_ExactlyOneOperatorEntry ==
    /\ opmeta_pc = "exit" => (OperatorEntryCount # 1 /\ operator_queries = <<>>)
    /\ opmeta_pc = "fetching" =>
          /\ OperatorEntryCount = 1
          /\ Len(operator_queries) = 1
          /\ Len(operator_queries[1].image_entries) = 1
          /\ IsSubstring(<<"ODH_OPERATOR">>, operator_queries[1].image_entries[1].name)
          /\ operator_queries[1].image_tag =
                IF self_build_type \in {"nightly", "Nightly", "NIGHTLY"}
                THEN self_rhoai_version \o <<"-nightly">>
                ELSE self_rhoai_version
    /\ opmeta_pc = "start" => operator_queries = <<>>

\* C25 witness: one operator entry among others, queried with the nightly tag
\* for a build type written in capitals
C25_Witness ==
    /\ opmeta_pc = "fetching"
    /\ self_build_type = "NIGHTLY"
    /\ Len(bundle_patch_images) = 3
    /\ operator_queries[1].image_tag = <<"rhoai-3.0", "-nightly">>

\* item i of the manifest-config map at the call is pinned to a branch
PinnedToBranch(i) ==
    /\ "ref_type" \in DOMAIN manifest_before[i][2]
    /\ manifest_before[i][2]["ref_type"] = <<"branch">>

\* the provenance map has the component of item i with a url and a commit
HasProvenance(i) ==
    \E j \in 1..Len(git_labels_map) :
        /\ git_labels_map[j][1] = manifest_before[i][1]
        /\ git_labels_map[j][2][GIT_URL_LABEL_KEY] # <<>>
        /\ git_labels_map[j][2][GIT_COMMIT_LABEL_KEY] # <<>>

\* C26: update_manifest_config returns normally only if every component not
\* pinned to a branch is in the provenance map with a non-empty url and
\* commit; on return each such component carries exactly that url and commit,
\* every component pinned to a branch is as it was, and when a component is
\* missing the run exits only after all components have been examined.
C26_ManifestConfigUpdated ==
    /\ mc_pc = "returned" =>
          \A i \in 1..Len(manifest_before) :
              /\ manifest_map[i][1] = manifest_before[i][1]
              /\ IF PinnedToBranch(i)
                 THEN manifest_map[i] = manifest_before[i]
                 ELSE /\ HasProvenance(i)
                      /\ \E j \in 1..Len(git_labels_map) :
                            /\ git_labels_map[j][1] = manifest_before[i][1]
                            /\ manifest_map[i][2][GIT_URL_LABEL_KEY]
                                  = git_labels_map[j][2][GIT_URL_LABEL_KEY]
                            /\ manifest_map[i][2][GIT_COMMIT_LABEL_KEY]
                                  = git_labels_map[j][2][GIT_COMMIT_LABEL_KEY]
    /\ mc_pc = "exit" =>
          /\ mc_idx = Len(manifest_before) + 1
          /\ \A i \in 1..Len(manifest_before) :
                (~PinnedToBranch(i) /\ ~HasProvenance(i)) =>
                    manifest_before[i][1] \in Range(mc_missing_components)
                                                \cup Range(mc_missing_git_labels)
          /\ \A i \in 1..Len(manifest_before) :
                PinnedToBranch(i) => manifest_map[i] = manifest_before[i]

\* C26 witness: a normal return that updated a component pinned to a tag and
\* left a component pinned to a branch alone
C26_Witness ==
    /\ mc_pc = "returned"
    /\ Len(manifest_before) = 2
    /\ \E i, j \in 1..2 :
          /\ PinnedToBranch(i)
          /\ manifest_before[j][2] = TagMeta
          /\ manifest_map[j] # manifest_before[j]

\* C27: deduplicate_and_sort returns exactly one entry per distinct key, the
\* first entry of the input with that key; with sort the result is in
\* ascending order of the key (without it, in the order of the first
\* occurrences); the input list is not modified.
C27_DedupKeepsFirst ==
    [][(dedup_pc = "start" /\ dedup_pc' = "returned") =>
          /\ dedup_entries' = dedup_entries
          /\ {dedup_result'[i].name : i \in 1..Len(dedup_result')}
                = {dedup_entries[i].name : i \in 1..Len(dedup_entries)}
          /\ \A i, j \in 1..Len(dedup_result') :
                i # j => dedup_result'[i].name # dedup_result'[j].name
          /\ \A i \in 1..Len(dedup_result') :
                \E p \in 1..Len(dedup_entries) :
                    /\ dedup_result'[i] = dedup_entries[p]
                    /\ \A q \in 1..(p - 1) :
                          dedup_entries[q].name # dedup_result'[i].name
          /\ dedup_sort =>
                \A i, j \in 1..Len(dedup_result') :
                    i < j => StrLess(dedup_result'[i].name, dedup_result'[j].name)
          /\ ~dedup_sort =>
                \A i, j \in 1..Len(dedup_result') :
                    i < j =>
                        \E p, q \in 1..Len(dedup_entries) :
                            /\ p < q
                            /\ dedup_entries[p].name = dedup_result'[i].name
                            /\ dedup_entries[q].name = dedup_result'[j].name
                            /\ \A r \in 1..(q - 1) :
                                  dedup_entries[r].name # dedup_result'[j].name]_vars

\* C27 witness: an unsorted input with a repeated key, returned sorted with
\* the first of the two entries
C27_Witness ==
    /\ dedup_pc = "returned"
    /\ dedup_sort
    /\ dedup_entries = <<Entry(Name("B"), "new2"), Entry(Name("A"), "other"),
                         Entry(Name("A"), "new")>>
    /\ dedup_result = <<Entry(Name("A"), "other"), Entry(Name("B"), "new2")>>

\* C28: process_push_pipeline reports is_updated = true exactly when the
\* expression it returns differs from the one it received, so that the push
\* pipeline is rewritten only when its content changed; in particular
\* enabling an expression that holds the sentinel file name but not the exact
\* guard clause reports no change.
C28_UpdatedIffChanged ==
    [][(push_calls' = push_calls + 1) =>
          (is_updated' <=> (push_cel_expr' # push_cel_expr))]_vars

\* the entries at the positions of a set, in the order of the list
RECURSIVE AtPositions(_, _, _)
AtPositions(entries, positions, from) ==
    IF from > Len(entries) THEN <<>>
    ELSE (IF from \in positions THEN <<entries[from]>> ELSE <<>>)
            \o AtPositions(entries, positions, from + 1)

\* the positions of the entries whose name contains a pattern of the list
MatchingPositions(patterns) ==
    {i \in 1..Len(filter_entries) :
        \E k \in 1..Len(patterns) : IsSubstring(patterns[k], filter_entries[i].name)}

\* C29: filter_image_entries partitions its input: for a non-empty pattern
\* list P every entry is in exactly one of filter(include_filter = P) and
\* filter(exclude_filter = P), both in input order; with the patterns of the
\* sync the entries not returned are exactly those whose name contains FBC,
\* BUNDLE or ODH_OPERATOR; a call with both filters raises and returns nothing.
C29_FilterPartitions ==
    /\ filter_pc \in {"excluded", "rejected"} =>
          /\ ~included.raised /\ ~excluded.raised
          /\ included.entries
                = AtPositions(filter_entries, MatchingPositions(filter_patterns), 1)
          /\ excluded.entries
                = AtPositions(filter_entries,
                              (1..Len(filter_entries))
                                  \ MatchingPositions(filter_patterns), 1)
          /\ Len(included.entries) + Len(excluded.entries) = Len(filter_entries)
          /\ filter_patterns = SYNC_EXCLUDE_FILTER =>
                \A i \in 1..Len(filter_entries) :
                    (\E j \in 1..Len(excluded.entries) :
                        excluded.entries[j] = filter_entries[i])
                    <=> ~(\/ IsSubstring(<<"FBC">>, filter_entries[i].name)
                          \/ IsSubstring(<<"BUNDLE">>, filter_entries[i].name)
                          \/ IsSubstring(<<"ODH_OPERATOR">>, filter_entries[i].name))
    /\ filter_pc = "rejected" => (rejected.raised /\ rejected.entries = <<>>)

\* C29 witness: the patterns of the sync split a list of three entries, the
\* second pattern removing one of them, and the call with both filters raised
C29_Witness ==
    /\ filter_pc = "rejected"
    /\ rejected.raised
    /\ filter_patterns = SYNC_EXCLUDE_FILTER
    /\ filter_entries = <<Entry(Name("BUNDLE"), "b"), Entry(Name("A"), "a"),
                          Entry(Name("ODH_OPERATOR"), "op")>>
    /\ included.entries = <<Entry(Name("BUNDLE"), "b"), Entry(Name("ODH_OPERATOR"), "op")>>
    /\ excluded.entries = <<Entry(Name("A"), "a")>>

=============================================================================
